---- MODULE Spec2Model ----
(***************************************************************************)
(* Model of the QCEngine frame loop (VulkanEngine::draw) together with the *)
(* asynchronous GPU / presentation engine it talks to.                     *)
(*                                                                         *)
(* The CPU side is draw() of src/unnamed/part_001, one action per Vulkan   *)
(* call, in the statement order of the function.  Every Vulkan call is     *)
(* wrapped in VK_CHECK, which only logs a non-zero result and falls        *)
(* through, so no result ever changes the control flow of draw().          *)
(*                                                                         *)
(* The GPU side is the graphics queue: queue submissions and present       *)
(* requests are executed in submission order, a submission blocks at its   *)
(* wait stage until its wait semaphore is signaled, and signals its signal *)
(* semaphore and its fence when it completes.                              *)
(*                                                                         *)
(* Around the frame loop sits the life cycle of the engine: init() with    *)
(* its stages, run() with its event loop, cleanup(), and the DeletionQueue *)
(* that init() fills and cleanup() flushes.                                *)
(*                                                                         *)
(* init_pipelines() with its PipelineBuilder and load_shader_module, and   *)
(* upload_mesh(), are also modelled statement by statement, each in a      *)
(* specification of its own.                                               *)
(***************************************************************************)
EXTENDS Naturals, Integers, Sequences, FiniteSets, TLC

\* ------------------------------------------------------------------ bounds
\* number of draw() invocations explored
MaxDraws == 3
\* number of images in the swapchain (_swapchainImages.size())
NumImages == 2
\* number of init() calls and of cleanup() calls explored
MaxInits == 2
MaxCleanups == 2
\* number of creation calls that fail during the init() calls
MaxFaults == 1
\* number of iterations of the loop of run() explored
MaxIters == 1
\* number of SDL events posted while run() is active
MaxEvents == 2
\* number of closures held by a DeletionQueue exercised on its own
MaxPush == 3

\* ------------------------------------------------------------- result codes
VK_SUCCESS == "VK_SUCCESS"
VK_TIMEOUT == "VK_TIMEOUT"
VK_SUBOPTIMAL_KHR == "VK_SUBOPTIMAL_KHR"
VK_ERROR_OUT_OF_DATE_KHR == "VK_ERROR_OUT_OF_DATE_KHR"
VK_ERROR_OUT_OF_HOST_MEMORY == "VK_ERROR_OUT_OF_HOST_MEMORY"
VK_PIPELINE_COMPILE_REQUIRED == "VK_PIPELINE_COMPILE_REQUIRED"
VK_NULL_HANDLE == "VK_NULL_HANDLE"
NoResult == "none"

VARIABLES
    pc,                  \* position inside draw(): 0 = not in draw(), else index into DrawOrder
    calls,               \* the calls draw() has issued in the current invocation, in order
    drawCalls,           \* number of draw() invocations so far
    windowFlags,         \* SDL_GetWindowFlags(_window)
    _frameNumber,        \* VulkanEngine::_frameNumber
    _renderFence,        \* state of the fence: "signaled" / "unsignaled"
    semaphores,          \* state of _presentSemaphore and _renderSemaphore
    acquirePending,      \* the presentation engine still owes a signal of _presentSemaphore
    cmdState,            \* life cycle state of _mainCommandBuffer
    waitResult,          \* result of vkWaitForFences in this invocation
    acquireResult,       \* result of vkAcquireNextImageKHR in this invocation
    submitResult,        \* result of vkQueueSubmit in this invocation
    swapchainImageIndex, \* the local of draw()
    queue,               \* _graphicsQueue: submissions not yet finished, oldest first
    presentQueue,        \* present requests not yet executed, oldest first
    presented,           \* the presents the presentation engine has executed, in order
    ctl,                 \* where the single thread is: "main", "init", "run:test", "run:poll", "run:draw"
    initPc,              \* position inside init(): 0 = not in init(), else index into InitOrder
    _isInitialized,      \* VulkanEngine::_isInitialized
    deletors,            \* _mainDeletionQueue.deletors: closures, each the handles it destroys
    invoked,             \* the closures flush() has invoked, in order
    apiLog,              \* creation and destruction calls made so far, in order, with their results
    handles,             \* value of the pipeline and buffer members of the engine
    faults,              \* number of creation calls that have failed
    bQuit,               \* the local of run()
    events,              \* the SDL event queue
    iters,               \* number of iterations of the loop of run() begun
    apiCalls,            \* number of init(), cleanup(), run() calls and of events posted
    _selectedShader,     \* VulkanEngine::_selectedShader
    boundPipeline,       \* the member draw() handed to vkCmdBindPipeline when it last recorded
    recorded,            \* what _mainCommandBuffer holds: the commands recorded and the framebuffer of its render pass
    ipPc,                \* position inside init_pipelines(): 0 = not inside, else index into InitPipelinesOrder
    pipelineBuilder,     \* the PipelineBuilder local of init_pipelines(), field by field
    shaderModules,       \* the VkShaderModule locals of init_pipelines()
    deviceCalls,         \* the creation calls that reached the device, with their create-info and result
    loadLog,             \* the load_shader_module calls made: file, return value, *outShaderModule before and after
    upPc,                \* position inside upload_mesh(): 0 = not inside, else index into UploadOrder
    _vertices,           \* Mesh::_vertices of the mesh being uploaded
    _vertexBuffer,       \* Mesh::_vertexBuffer: the buffer, its size and its memory
    data,                \* the local void* data of upload_mesh()
    meshCalls            \* the allocator and draw calls made on the mesh, in order

vars == <<pc, calls, drawCalls, windowFlags, _frameNumber, _renderFence, semaphores,
          acquirePending, cmdState, waitResult, acquireResult, submitResult,
          swapchainImageIndex, queue, presentQueue, presented,
          ctl, initPc, _isInitialized, deletors, invoked, apiLog, handles, faults,
          bQuit, events, iters, apiCalls, _selectedShader, boundPipeline, recorded,
          ipPc, pipelineBuilder, shaderModules, deviceCalls, loadLog,
          upPc, _vertices, _vertexBuffer, data, meshCalls>>

lifeVars == <<ctl, initPc, _isInitialized, deletors, invoked, apiLog, handles, faults,
              bQuit, events, iters, apiCalls, _selectedShader>>
frameVars == <<pc, calls, drawCalls, windowFlags, _frameNumber, waitResult, acquireResult,
               submitResult, swapchainImageIndex, boundPipeline, recorded>>
gpuVars == <<_renderFence, semaphores, acquirePending, cmdState, queue, presentQueue, presented>>
cpuLocals == <<waitResult, acquireResult, submitResult, swapchainImageIndex>>
pipeVars == <<ipPc, pipelineBuilder, shaderModules, deviceCalls, loadLog>>
meshVars == <<upPc, _vertices, _vertexBuffer, data, meshCalls>>

\* ------------------------------------------------------------------ helpers
Range(s) == {s[i] : i \in 1..Len(s)}

\* VK_CHECK(x): a non-zero result is printed; execution continues either way
VK_CHECK(err) == TRUE

\* variant: the minimized test is missing
IsMinimized_Never(flags) == FALSE

\* don't draw when window minimized
IsMinimized(flags) == "SDL_WINDOW_MINIMIZED" \in flags

\* variant: the fence is reset before it is waited on
DrawOrder_ResetBeforeWait ==
    << "vkResetFences", "vkWaitForFences", "vkAcquireNextImageKHR",
       "vkResetCommandBuffer", "vkBeginCommandBuffer", "vkCmdRecord",
       "vkEndCommandBuffer", "vkQueueSubmit", "vkQueuePresentKHR", "frameNumber++" >>

\* variant: the image is presented before the command buffer is submitted
DrawOrder_PresentBeforeSubmit ==
    << "vkWaitForFences", "vkResetFences", "vkAcquireNextImageKHR",
       "vkResetCommandBuffer", "vkBeginCommandBuffer", "vkCmdRecord",
       "vkEndCommandBuffer", "vkQueuePresentKHR", "vkQueueSubmit", "frameNumber++" >>

\* the statements of draw() after the minimized test, in program order
DrawOrder ==
    << "vkWaitForFences", "vkResetFences", "vkAcquireNextImageKHR",
       "vkResetCommandBuffer", "vkBeginCommandBuffer", "vkCmdRecord",
       "vkEndCommandBuffer", "vkQueueSubmit", "vkQueuePresentKHR", "frameNumber++" >>

At(stmt) == pc \in 1..Len(DrawOrder) /\ DrawOrder[pc] = stmt

\* control moves to the next statement if the checked result lets it
Goto(err) ==
    /\ pc' = IF VK_CHECK(err) THEN (IF pc = Len(DrawOrder) THEN 0 ELSE pc + 1) ELSE 0
    /\ calls' = Append(calls, DrawOrder[pc])

\* variant: the submission waits on no semaphore
SubmitInfo_NoWait ==
    [ waitSemaphore   |-> "none",
      waitStage       |-> "COLOR_ATTACHMENT_OUTPUT",
      signalSemaphore |-> "_renderSemaphore",
      fence           |-> "_renderFence" ]

\* VkSubmitInfo built by draw(), and the fence handed to vkQueueSubmit
SubmitInfo ==
    [ waitSemaphore   |-> "_presentSemaphore",
      waitStage       |-> "COLOR_ATTACHMENT_OUTPUT",
      signalSemaphore |-> "_renderSemaphore",
      fence           |-> "_renderFence" ]

\* variant: the present request waits on no semaphore
PresentInfo_NoWait ==
    [ waitSemaphore |-> "none" ]

\* VkPresentInfoKHR built by draw()
PresentInfo ==
    [ waitSemaphore |-> "_renderSemaphore" ]

\* ------------------------------------------------------------ DeletionQueue
RECURSIVE Flatten(_)
Flatten(ss) == IF ss = << >> THEN << >> ELSE Head(ss) \o Flatten(Tail(ss))

\* push_function: deletors.push_back(fn)
push_function(d, fn) == Append(d, fn)

\* variant: the closures are invoked front to back
flush_Forward(d) == d

\* flush: the closures in the order they are invoked, from rbegin() to rend()
flush(d) == [k \in 1..Len(d) |-> d[Len(d) + 1 - k]]

\* ------------------------------------------------------- handles and calls
Framebuffer(i) == "_framebuffers[" \o ToString(i) \o "]"
ImageView(i) == "_swapchainImageViews[" \o ToString(i) \o "]"

ShaderModules ==
    {"helloTriangleFragShader", "helloTriangleVertexShader", "altHelloFragShader",
     "altHelloVertexShader", "meshVertexShader"}
Pipelines == {"_trianglePipeline", "_altTrianglePipeline", "_meshPipeline"}
MeshBuffers == {"_triangleMesh._vertexBuffer", "_monkeyMesh._vertexBuffer"}
PipelineLayouts == {"_trianglePipelineLayout", "_meshPipelineLayout"}
SyncObjects == {"_renderFence", "_presentSemaphore", "_renderSemaphore"}

\* the members whose value the model follows
TrackedHandles == Pipelines \cup MeshBuffers \cup {"_depthImage"}

\* the creation calls whose failure is explored
Fallible ==
    ShaderModules \cup Pipelines \cup MeshBuffers \cup PipelineLayouts \cup SyncObjects
        \cup {"_depthImage"}

\* the shader stages pushed into the PipelineBuilder before each build
PipelineStages(p) ==
    CASE p = "_trianglePipeline"    -> {"helloTriangleVertexShader", "helloTriangleFragShader"}
      [] p = "_altTrianglePipeline" -> {"altHelloVertexShader", "altHelloFragShader"}
      [] p = "_meshPipeline"        -> {"meshVertexShader", "altHelloFragShader"}

Call(op, obj, result) == [op |-> op, obj |-> obj, result |-> result]

Destroys(objs) == [k \in 1..Len(objs) |-> Call("destroy", objs[k], VK_SUCCESS)]

\* variant: only negative result codes count as failure
build_pipeline_ErrorsOnly(result, newPipeline) ==
    IF result = VK_ERROR_OUT_OF_HOST_MEMORY THEN VK_NULL_HANDLE ELSE newPipeline

\* PipelineBuilder::build_pipeline: the value returned, given the result of
\* vkCreateGraphicsPipelines and the handle it wrote
build_pipeline(result, newPipeline) ==
    IF result # VK_SUCCESS THEN VK_NULL_HANDLE ELSE newPipeline

\* ------------------------------------------------------------------ init()
\* variant: the framebuffers are made before the render pass
InitOrder_FramebuffersBeforeRenderPass ==
    << "init_vulkan", "init_swapchain", "init_framebuffers", "init_default_renderpass",
       "init_commands", "init_sync_structures", "init_pipelines", "load_meshes" >>

\* the stages of init(), in call order
InitOrder ==
    << "init_vulkan", "init_swapchain", "init_default_renderpass", "init_framebuffers",
       "init_commands", "init_sync_structures", "init_pipelines", "load_meshes" >>

\* the handles each stage creates, in creation order
StageCreates(stage) ==
    CASE stage = "init_vulkan" ->
            << "_instance", "_debug_messenger", "_surface", "_device", "_allocator" >>
      [] stage = "init_swapchain" ->
            << "_swapchain" >> \o [i \in 1..NumImages |-> ImageView(i - 1)]
                \o << "_depthImage", "_depthImageView" >>
      [] stage = "init_default_renderpass" -> << "_renderPass" >>
      [] stage = "init_framebuffers" -> [i \in 1..NumImages |-> Framebuffer(i - 1)]
      [] stage = "init_commands" -> << "_commandPool", "_mainCommandBuffer" >>
      [] stage = "init_sync_structures" ->
            << "_renderFence", "_presentSemaphore", "_renderSemaphore" >>
      [] stage = "init_pipelines" ->
            << "helloTriangleFragShader", "helloTriangleVertexShader",
               "altHelloFragShader", "altHelloVertexShader",
               "_trianglePipelineLayout", "_trianglePipeline", "_altTrianglePipeline",
               "meshVertexShader", "_meshPipelineLayout", "_meshPipeline" >>
      [] stage = "load_meshes" ->
            << "_triangleMesh._vertexBuffer", "_monkeyMesh._vertexBuffer" >>

\* the handles of earlier stages that each stage reads
StageReads(stage) ==
    CASE stage = "init_vulkan" -> {"_window"}
      [] stage = "init_swapchain" -> {"_device", "_surface", "_allocator"}
      [] stage = "init_default_renderpass" -> {"_device"}
      [] stage = "init_framebuffers" ->
            {"_device", "_renderPass", "_depthImageView"}
                \cup {ImageView(i) : i \in 0..(NumImages - 1)}
      [] stage = "init_commands" -> {"_device"}
      [] stage = "init_sync_structures" -> {"_device"}
      [] stage = "init_pipelines" -> {"_device", "_renderPass"}
      [] stage = "load_meshes" -> {"_allocator"}

\* the handles each stage destroys again before it returns
StageDestroys(stage) ==
    IF stage = "init_pipelines"
        THEN << "helloTriangleVertexShader", "helloTriangleFragShader",
                "altHelloVertexShader", "altHelloFragShader", "meshVertexShader" >>
        ELSE << >>

\* variant: the framebuffer closures destroy the image view first
StagePushes_ViewBeforeFramebuffer(stage) ==
    CASE stage = "init_vulkan" -> << >>
      [] stage = "init_swapchain" ->
            << << "_swapchain" >>, << "_depthImageView", "_depthImage" >> >>
      [] stage = "init_default_renderpass" -> << << "_renderPass" >> >>
      [] stage = "init_framebuffers" ->
            [i \in 1..NumImages |-> << ImageView(i - 1), Framebuffer(i - 1) >>]
      [] stage = "init_commands" -> << << "_commandPool" >> >>
      [] stage = "init_sync_structures" ->
            << << "_renderFence" >>, << "_presentSemaphore", "_renderSemaphore" >> >>
      [] stage = "init_pipelines" ->
            << << "_altTrianglePipeline", "_trianglePipeline", "_meshPipeline",
                  "_trianglePipelineLayout", "_meshPipelineLayout" >> >>
      [] stage = "load_meshes" ->
            << << "_triangleMesh._vertexBuffer" >>, << "_monkeyMesh._vertexBuffer" >> >>

\* the closures each stage pushes on _mainDeletionQueue, in push order;
\* a closure is the sequence of handles it destroys
StagePushes(stage) ==
    CASE stage = "init_vulkan" -> << >>
      [] stage = "init_swapchain" ->
            << << "_swapchain" >>, << "_depthImageView", "_depthImage" >> >>
      [] stage = "init_default_renderpass" -> << << "_renderPass" >> >>
      [] stage = "init_framebuffers" ->
            [i \in 1..NumImages |-> << Framebuffer(i - 1), ImageView(i - 1) >>]
      [] stage = "init_commands" -> << << "_commandPool" >> >>
      [] stage = "init_sync_structures" ->
            << << "_renderFence" >>, << "_presentSemaphore", "_renderSemaphore" >> >>
      [] stage = "init_pipelines" ->
            << << "_altTrianglePipeline", "_trianglePipeline", "_meshPipeline",
                  "_trianglePipelineLayout", "_meshPipelineLayout" >> >>
      [] stage = "load_meshes" ->
            << << "_triangleMesh._vertexBuffer" >>, << "_monkeyMesh._vertexBuffer" >> >>

\* result of the creation call of obj when the calls in failed fail
CreateResult(obj, failed, code) ==
    IF obj \notin failed THEN VK_SUCCESS
    ELSE IF obj \in Pipelines THEN code ELSE VK_ERROR_OUT_OF_HOST_MEMORY

\* the calls a stage makes: its creations with their results, then its destructions
StageLog(stage, failed, code) ==
    [k \in 1..Len(StageCreates(stage)) |->
        Call("create", StageCreates(stage)[k],
             CreateResult(StageCreates(stage)[k], failed, code))]
    \o Destroys(StageDestroys(stage))

\* the value a stage leaves in a member it creates
StageHandle(obj, failed, code) ==
    IF obj \in Pipelines
        THEN build_pipeline(CreateResult(obj, failed, code), "handle")
        ELSE IF obj \in failed THEN VK_NULL_HANDLE ELSE "handle"

\* the states a fence or semaphore member can be found in after its creation
\* call: the state asked for, or, the member being left unset by a failed
\* call, any state
SyncState(obj, asked, log) ==
    IF \E k \in 1..Len(log) :
          log[k].op = "create" /\ log[k].obj = obj /\ log[k].result # VK_SUCCESS
        THEN {"signaled", "unsignaled"}
        ELSE {asked}

\* pipelines built from a shader module that was never loaded: the outcome
\* of such a build is not determined
BuiltFromUnloaded(failed) ==
    {p \in Pipelines : PipelineStages(p) \cap failed # {}}

\* a default-constructed PipelineBuilder: no stage, no field set
NewPipelineBuilder ==
    [ _shaderStages         |-> << >>,
      _vertexInputInfo      |-> "unset",
      _inputAssembly        |-> "unset",
      _viewport             |-> "unset",
      _scissor              |-> "unset",
      _rasterizer           |-> "unset",
      _colorBlendAttachment |-> "unset",
      _multisampling        |-> "unset",
      _pipelineLayout       |-> "unset",
      _depthStencil         |-> "unset" ]

\* a Mesh before upload_mesh: no vertex, no buffer
NewVertexBuffer == [ _buffer |-> "unset", size |-> 0, memory |-> << >>, mapped |-> FALSE ]

\* a command buffer in the initial state: nothing recorded, no render pass
EmptyCommandBuffer == [ commands |-> << >>, framebuffer |-> -1 ]

\* variant: the mesh is drawn twice in the render pass
RenderCommands_TwoDraws ==
    << "vkCmdBeginRenderPass", "vkCmdBindPipeline", "vkCmdBindVertexBuffers",
       "vkCmdPushConstants", "vkCmdDraw", "vkCmdDraw", "vkCmdEndRenderPass" >>

\* the commands draw() records between vkBeginCommandBuffer and
\* vkEndCommandBuffer, in program order
RenderCommands ==
    << "vkCmdBeginRenderPass", "vkCmdBindPipeline", "vkCmdBindVertexBuffers",
       "vkCmdPushConstants", "vkCmdDraw", "vkCmdEndRenderPass" >>

\* nothing is inside init_pipelines() or upload_mesh()
UnitsIdle ==
    /\ ipPc = 0
    /\ pipelineBuilder = NewPipelineBuilder
    /\ shaderModules = [m \in ShaderModules |-> "unset"]
    /\ deviceCalls = << >>
    /\ loadLog = << >>
    /\ upPc = 0
    /\ _vertices = << >>
    /\ _vertexBuffer = NewVertexBuffer
    /\ data = "unset"
    /\ meshCalls = << >>

\* ---------------------------------------------------------------------- Init
\* the frame loop on its own: state after an init() in which every call
\* succeeded (fence created signaled, semaphores unsignaled, command buffer
\* freshly allocated, frame counter 0, window shown)
InitializedEngine ==
    /\ initPc = 0
    /\ _isInitialized = TRUE
    /\ deletors = Flatten([k \in 1..Len(InitOrder) |-> StagePushes(InitOrder[k])])
    /\ invoked = << >>
    /\ apiLog = << Call("create", "_window", VK_SUCCESS) >>
                    \o Flatten([k \in 1..Len(InitOrder) |-> StageLog(InitOrder[k], {}, VK_SUCCESS)])
    /\ handles = [h \in TrackedHandles |-> "handle"]
    /\ faults = 0
    /\ bQuit = FALSE
    /\ events = << >>
    /\ iters = 0
    /\ apiCalls = [init |-> 1, cleanup |-> 0, flush |-> 0, run |-> 0, events |-> 0]
    /\ pc = 0
    /\ calls = << >>
    /\ drawCalls = 0
    /\ windowFlags = {"SDL_WINDOW_VULKAN"}
    /\ _frameNumber = 0
    /\ _renderFence = "signaled"
    /\ semaphores = [s \in {"_presentSemaphore", "_renderSemaphore"} |-> "unsignaled"]
    /\ acquirePending = FALSE
    /\ cmdState = "initial"
    /\ waitResult = NoResult
    /\ acquireResult = NoResult
    /\ submitResult = NoResult
    /\ swapchainImageIndex = 0
    /\ queue = << >>
    /\ presentQueue = << >>
    /\ presented = << >>
    /\ _selectedShader = 0
    /\ boundPipeline = "none"
    /\ recorded = EmptyCommandBuffer
    /\ UnitsIdle

\* the frame loop on its own: draw() is called again and again
Init ==
    /\ InitializedEngine
    /\ ctl = "frames"

\* ------------------------------------------------------------ window events
\* the window is minimized or restored between two draw() calls
MinimizeWindow ==
    /\ pc = 0
    /\ drawCalls < MaxDraws
    /\ ~ IsMinimized(windowFlags)
    /\ windowFlags' = windowFlags \cup {"SDL_WINDOW_MINIMIZED"}
    /\ UNCHANGED lifeVars
    /\ UNCHANGED <<pc, calls, drawCalls, _frameNumber, gpuVars, cpuLocals>>
    /\ UNCHANGED <<boundPipeline, recorded>>
    /\ UNCHANGED <<pipeVars, meshVars>>

RestoreWindow ==
    /\ pc = 0
    /\ drawCalls < MaxDraws
    /\ IsMinimized(windowFlags)
    /\ windowFlags' = windowFlags \ {"SDL_WINDOW_MINIMIZED"}
    /\ UNCHANGED lifeVars
    /\ UNCHANGED <<pc, calls, drawCalls, _frameNumber, gpuVars, cpuLocals>>
    /\ UNCHANGED <<boundPipeline, recorded>>
    /\ UNCHANGED <<pipeVars, meshVars>>

\* ------------------------------------------------------------------- draw()
\* draw() called with the window minimized: returns at once
DrawMinimized ==
    /\ pc = 0
    /\ drawCalls < MaxDraws
    /\ IsMinimized(windowFlags)
    /\ drawCalls' = drawCalls + 1
    /\ calls' = << >>
    /\ waitResult' = NoResult
    /\ acquireResult' = NoResult
    /\ submitResult' = NoResult
    /\ UNCHANGED lifeVars
    /\ UNCHANGED <<pc, windowFlags, _frameNumber, gpuVars, swapchainImageIndex>>
    /\ UNCHANGED <<boundPipeline, recorded>>
    /\ UNCHANGED <<pipeVars, meshVars>>

\* draw() called with the window shown: falls through to the fence wait
DrawEnter ==
    /\ pc = 0
    /\ drawCalls < MaxDraws
    /\ ~ IsMinimized(windowFlags)
    /\ drawCalls' = drawCalls + 1
    /\ pc' = 1
    /\ calls' = << >>
    /\ waitResult' = NoResult
    /\ acquireResult' = NoResult
    /\ submitResult' = NoResult
    /\ UNCHANGED lifeVars
    /\ UNCHANGED <<windowFlags, _frameNumber, gpuVars, swapchainImageIndex>>
    /\ UNCHANGED <<boundPipeline, recorded>>
    /\ UNCHANGED <<pipeVars, meshVars>>

\* VK_CHECK(vkWaitForFences(_device, 1, &_renderFence, true, 1000000000)):
\* success once the fence is signaled, VK_TIMEOUT when the second runs out first
WaitForFences ==
    /\ At("vkWaitForFences")
    /\ \E r \in (IF _renderFence = "signaled" THEN {VK_SUCCESS} ELSE {VK_TIMEOUT}) :
          /\ waitResult' = r
          /\ Goto(r)
    /\ UNCHANGED lifeVars
    /\ UNCHANGED <<drawCalls, windowFlags, _frameNumber, gpuVars,
                   acquireResult, submitResult, swapchainImageIndex>>
    /\ UNCHANGED <<boundPipeline, recorded>>
    /\ UNCHANGED <<pipeVars, meshVars>>

\* VK_CHECK(vkResetFences(_device, 1, &_renderFence))
ResetFences ==
    /\ At("vkResetFences")
    /\ _renderFence' = "unsignaled"
    /\ Goto(VK_SUCCESS)
    /\ UNCHANGED lifeVars
    /\ UNCHANGED <<drawCalls, windowFlags, _frameNumber, semaphores, acquirePending,
                   cmdState, queue, presentQueue, presented, cpuLocals>>
    /\ UNCHANGED <<boundPipeline, recorded>>
    /\ UNCHANGED <<pipeVars, meshVars>>

\* VK_CHECK(vkAcquireNextImageKHR(_device, _swapchain, 1000000000,
\*                                _presentSemaphore, nullptr, &swapchainImageIndex)):
\* on success the index is written and the semaphore will be signaled when
\* the image is ready; otherwise the local keeps its indeterminate value
AcquireNextImage ==
    /\ At("vkAcquireNextImageKHR")
    /\ \E r \in {VK_SUCCESS, VK_SUBOPTIMAL_KHR, VK_TIMEOUT, VK_ERROR_OUT_OF_DATE_KHR} :
          /\ acquireResult' = r
          /\ IF r \in {VK_SUCCESS, VK_SUBOPTIMAL_KHR}
                THEN /\ \E i \in 0..(NumImages - 1) : swapchainImageIndex' = i
                     /\ acquirePending' = TRUE
                ELSE /\ \E g \in 0..NumImages : swapchainImageIndex' = g
                     /\ UNCHANGED acquirePending
          /\ Goto(r)
    /\ UNCHANGED lifeVars
    /\ UNCHANGED <<drawCalls, windowFlags, _frameNumber, _renderFence, semaphores,
                   cmdState, queue, presentQueue, presented, waitResult, submitResult>>
    /\ UNCHANGED <<boundPipeline, recorded>>
    /\ UNCHANGED <<pipeVars, meshVars>>

\* VK_CHECK(vkResetCommandBuffer(_mainCommandBuffer, 0))
ResetCommandBuffer ==
    /\ At("vkResetCommandBuffer")
    /\ cmdState' = "initial"
    /\ recorded' = EmptyCommandBuffer
    /\ Goto(VK_SUCCESS)
    /\ UNCHANGED lifeVars
    /\ UNCHANGED <<drawCalls, windowFlags, _frameNumber, _renderFence, semaphores,
                   acquirePending, queue, presentQueue, presented, cpuLocals>>
    /\ UNCHANGED boundPipeline
    /\ UNCHANGED <<pipeVars, meshVars>>

\* VK_CHECK(vkBeginCommandBuffer(cmd, &cmdBeginInfo))
BeginCommandBuffer ==
    /\ At("vkBeginCommandBuffer")
    /\ cmdState' = "recording"
    /\ Goto(VK_SUCCESS)
    /\ UNCHANGED lifeVars
    /\ UNCHANGED <<drawCalls, windowFlags, _frameNumber, _renderFence, semaphores,
                   acquirePending, queue, presentQueue, presented, cpuLocals>>
    /\ UNCHANGED <<boundPipeline, recorded>>
    /\ UNCHANGED <<pipeVars, meshVars>>

\* variant: the pipeline is built again while the frame is recorded
RecordCommands_Rebuilds ==
    /\ At("vkCmdRecord")
    /\ boundPipeline' = "_meshPipeline"
    /\ recorded' = [ commands    |-> recorded.commands \o RenderCommands,
                     framebuffer |-> swapchainImageIndex ]
    /\ pc' = pc + 1
    /\ calls' = Append(calls, "vkCmdRecord")
    /\ handles' = [handles EXCEPT !["_meshPipeline"] = VK_NULL_HANDLE]
    /\ UNCHANGED <<ctl, initPc, _isInitialized, deletors, invoked, apiLog, faults,
                   bQuit, events, iters, apiCalls, _selectedShader>>
    /\ UNCHANGED <<drawCalls, windowFlags, _frameNumber, gpuVars, cpuLocals>>
    /\ UNCHANGED <<pipeVars, meshVars>>

\* vkCmdBeginRenderPass(cmd, &rpInfo, ...) with rpInfo made from
\* _framebuffers[swapchainImageIndex], the render commands, vkCmdEndRenderPass
RecordCommands ==
    /\ At("vkCmdRecord")
    /\ boundPipeline' = "_meshPipeline"
    /\ recorded' = [ commands    |-> recorded.commands \o RenderCommands,
                     framebuffer |-> swapchainImageIndex ]
    /\ Goto(VK_SUCCESS)
    /\ UNCHANGED lifeVars
    /\ UNCHANGED <<drawCalls, windowFlags, _frameNumber, gpuVars, cpuLocals>>
    /\ UNCHANGED <<pipeVars, meshVars>>

\* VK_CHECK(vkEndCommandBuffer(cmd))
EndCommandBuffer ==
    /\ At("vkEndCommandBuffer")
    /\ cmdState' = "executable"
    /\ Goto(VK_SUCCESS)
    /\ UNCHANGED lifeVars
    /\ UNCHANGED <<drawCalls, windowFlags, _frameNumber, _renderFence, semaphores,
                   acquirePending, queue, presentQueue, presented, cpuLocals>>
    /\ UNCHANGED <<boundPipeline, recorded>>
    /\ UNCHANGED <<pipeVars, meshVars>>

\* VK_CHECK(vkQueueSubmit(_graphicsQueue, 1, &submit, _renderFence)):
\* on success the batch is queued, otherwise nothing is queued
QueueSubmit ==
    /\ At("vkQueueSubmit")
    /\ \E r \in {VK_SUCCESS, VK_ERROR_OUT_OF_HOST_MEMORY} :
          /\ submitResult' = r
          /\ IF r = VK_SUCCESS
                THEN /\ queue' = Append(queue,
                                    [ frame  |-> drawCalls,
                                      stage  |-> "queued",
                                      wait   |-> SubmitInfo.waitSemaphore,
                                      signal |-> SubmitInfo.signalSemaphore,
                                      fence  |-> SubmitInfo.fence ])
                     /\ cmdState' = "pending"
                ELSE UNCHANGED <<queue, cmdState>>
          /\ Goto(r)
    /\ UNCHANGED lifeVars
    /\ UNCHANGED <<drawCalls, windowFlags, _frameNumber, _renderFence, semaphores,
                   acquirePending, presentQueue, presented,
                   waitResult, acquireResult, swapchainImageIndex>>
    /\ UNCHANGED <<boundPipeline, recorded>>
    /\ UNCHANGED <<pipeVars, meshVars>>

\* VK_CHECK(vkQueuePresentKHR(_graphicsQueue, &presentInfo))
QueuePresent ==
    /\ At("vkQueuePresentKHR")
    /\ presentQueue' = Append(presentQueue,
                              [ frame |-> drawCalls,
                                wait  |-> PresentInfo.waitSemaphore,
                                image |-> swapchainImageIndex ])
    /\ Goto(VK_SUCCESS)
    /\ UNCHANGED lifeVars
    /\ UNCHANGED <<drawCalls, windowFlags, _frameNumber, _renderFence, semaphores,
                   acquirePending, cmdState, queue, presented, cpuLocals>>
    /\ UNCHANGED <<boundPipeline, recorded>>
    /\ UNCHANGED <<pipeVars, meshVars>>

\* variant: the frame's resources are handed to the deletion queue every frame
AdvanceFrame_Pushes ==
    /\ At("frameNumber++")
    /\ _frameNumber' = _frameNumber + 1
    /\ pc' = 0
    /\ calls' = Append(calls, "frameNumber++")
    /\ deletors' = Append(deletors, << "_mainCommandBuffer" >>)
    /\ UNCHANGED <<ctl, initPc, _isInitialized, invoked, apiLog, handles, faults,
                   bQuit, events, iters, apiCalls>>
    /\ UNCHANGED <<drawCalls, windowFlags, gpuVars, cpuLocals>>
    /\ UNCHANGED <<_selectedShader, boundPipeline, recorded>>
    /\ UNCHANGED <<pipeVars, meshVars>>

\* _frameNumber++
AdvanceFrame ==
    /\ At("frameNumber++")
    /\ _frameNumber' = _frameNumber + 1
    /\ Goto(VK_SUCCESS)
    /\ UNCHANGED lifeVars
    /\ UNCHANGED <<drawCalls, windowFlags, gpuVars, cpuLocals>>
    /\ UNCHANGED <<boundPipeline, recorded>>
    /\ UNCHANGED <<pipeVars, meshVars>>

\* ------------------------------------------------- GPU / presentation engine
Signal(sems, s) == IF s = "none" THEN sems ELSE [sems EXCEPT ![s] = "signaled"]
Unsignal(sems, s) == IF s = "none" THEN sems ELSE [sems EXCEPT ![s] = "unsignaled"]
IsSignaled(sems, s) == s = "none" \/ sems[s] = "signaled"

\* the acquired image becomes available: _presentSemaphore is signaled
ImageReady ==
    /\ acquirePending
    /\ acquirePending' = FALSE
    /\ semaphores' = Signal(semaphores, "_presentSemaphore")
    /\ UNCHANGED lifeVars
    /\ UNCHANGED <<pc, calls, drawCalls, windowFlags, _frameNumber, _renderFence,
                   cmdState, queue, presentQueue, presented, cpuLocals>>
    /\ UNCHANGED <<boundPipeline, recorded>>
    /\ UNCHANGED <<pipeVars, meshVars>>

\* the oldest submission reaches its wait stage (color attachment output):
\* it proceeds once its wait semaphore is signaled, and unsignals it
GPUBeginColorOutput ==
    /\ queue # << >>
    /\ Head(queue).stage = "queued"
    /\ IsSignaled(semaphores, Head(queue).wait)
    /\ semaphores' = Unsignal(semaphores, Head(queue).wait)
    /\ queue' = [queue EXCEPT ![1].stage = "executing"]
    /\ UNCHANGED lifeVars
    /\ UNCHANGED <<pc, calls, drawCalls, windowFlags, _frameNumber, _renderFence,
                   acquirePending, cmdState, presentQueue, presented, cpuLocals>>
    /\ UNCHANGED <<boundPipeline, recorded>>
    /\ UNCHANGED <<pipeVars, meshVars>>

\* the oldest submission finishes: its signal semaphore and its fence are
\* signaled; a one-time-submit command buffer leaves the pending state
GPUComplete ==
    /\ queue # << >>
    /\ Head(queue).stage = "executing"
    /\ semaphores' = Signal(semaphores, Head(queue).signal)
    /\ _renderFence' = IF Head(queue).fence = "_renderFence" THEN "signaled" ELSE _renderFence
    /\ queue' = Tail(queue)
    /\ cmdState' = IF cmdState = "pending" /\ Tail(queue) = << >> THEN "invalid" ELSE cmdState
    /\ UNCHANGED lifeVars
    /\ UNCHANGED <<pc, calls, drawCalls, windowFlags, _frameNumber,
                   acquirePending, presentQueue, presented, cpuLocals>>
    /\ UNCHANGED <<boundPipeline, recorded>>
    /\ UNCHANGED <<pipeVars, meshVars>>

\* the oldest present request is executed once its wait semaphore is signaled
PresentExecute ==
    /\ presentQueue # << >>
    /\ IsSignaled(semaphores, Head(presentQueue).wait)
    /\ semaphores' = Unsignal(semaphores, Head(presentQueue).wait)
    /\ presented' = Append(presented, [ frame |-> Head(presentQueue).frame,
                                        image |-> Head(presentQueue).image ])
    /\ presentQueue' = Tail(presentQueue)
    /\ UNCHANGED lifeVars
    /\ UNCHANGED <<pc, calls, drawCalls, windowFlags, _frameNumber, _renderFence,
                   acquirePending, cmdState, queue, cpuLocals>>
    /\ UNCHANGED <<boundPipeline, recorded>>
    /\ UNCHANGED <<pipeVars, meshVars>>

\* --------------------------------------------------------------------- Next
Next ==
    \/ MinimizeWindow
    \/ RestoreWindow
    \/ DrawMinimized
    \/ DrawEnter
    \/ WaitForFences
    \/ ResetFences
    \/ AcquireNextImage
    \/ ResetCommandBuffer
    \/ BeginCommandBuffer
    \/ RecordCommands
    \/ EndCommandBuffer
    \/ QueueSubmit
    \/ QueuePresent
    \/ AdvanceFrame
    \/ ImageReady
    \/ GPUBeginColorOutput
    \/ GPUComplete
    \/ PresentExecute

Spec == Init /\ [][Next]_vars

\* =============================================================== life cycle
\* state of a freshly constructed VulkanEngine: _isInitialized false,
\* _frameNumber 0, empty deletion queue, no handle assigned yet
Constructed ==
    /\ pc = 0
    /\ calls = << >>
    /\ drawCalls = 0
    /\ windowFlags = {"SDL_WINDOW_VULKAN"}
    /\ _frameNumber = 0
    /\ _renderFence = "uninit"
    /\ semaphores = [s \in {"_presentSemaphore", "_renderSemaphore"} |-> "uninit"]
    /\ acquirePending = FALSE
    /\ cmdState = "uninit"
    /\ waitResult = NoResult
    /\ acquireResult = NoResult
    /\ submitResult = NoResult
    /\ swapchainImageIndex = 0
    /\ queue = << >>
    /\ presentQueue = << >>
    /\ presented = << >>
    /\ _selectedShader = 0
    /\ boundPipeline = "none"
    /\ recorded = EmptyCommandBuffer
    /\ UnitsIdle
    /\ initPc = 0
    /\ _isInitialized = FALSE
    /\ deletors = << >>
    /\ invoked = << >>
    /\ apiLog = << >>
    /\ handles = [h \in TrackedHandles |-> "uninit"]
    /\ faults = 0
    /\ bQuit = FALSE
    /\ events = << >>
    /\ iters = 0
    /\ apiCalls = [init |-> 0, cleanup |-> 0, flush |-> 0, run |-> 0, events |-> 0]

\* main() holds a constructed engine and calls init(), run(), cleanup()
LifeInit ==
    /\ Constructed
    /\ ctl = "main"

RECURSIVE PushAll(_, _)
PushAll(d, fns) ==
    IF fns = << >> THEN d ELSE PushAll(push_function(d, Head(fns)), Tail(fns))

\* init() is called: the window is created and the first stage is entered.
\* init() is explored before run() has been called.
CallInit ==
    /\ ctl = "main"
    /\ apiCalls.init < MaxInits
    /\ apiCalls.run = 0
    /\ ctl' = "init"
    /\ initPc' = 1
    /\ apiLog' = Append(apiLog, Call("create", "_window", VK_SUCCESS))
    /\ apiCalls' = [apiCalls EXCEPT !.init = @ + 1]
    /\ UNCHANGED <<frameVars, gpuVars, _isInitialized, deletors, invoked, handles, faults,
                   bQuit, events, iters>>
    /\ UNCHANGED _selectedShader
    /\ UNCHANGED <<pipeVars, meshVars>>

\* one stage of init(): its creation calls (some of which may fail, no
\* failure stops the stage), the closures it pushes, the members it assigns;
\* after the last stage init() sets _isInitialized and returns
InitStage(stage) ==
    /\ ctl = "init"
    /\ initPc \in 1..Len(InitOrder)
    /\ InitOrder[initPc] = stage
    /\ \E failed \in SUBSET (Fallible \cap Range(StageCreates(stage))) :
       \E code \in {VK_ERROR_OUT_OF_HOST_MEMORY, VK_PIPELINE_COMPILE_REQUIRED} :
          LET counted == failed \ BuiltFromUnloaded(failed) IN
          /\ faults + Cardinality(counted) <= MaxFaults
          /\ code = VK_PIPELINE_COMPILE_REQUIRED => failed \cap Pipelines # {}
          /\ faults' = faults + Cardinality(counted)
          /\ apiLog' = apiLog \o StageLog(stage, failed, code)
          /\ deletors' = PushAll(deletors, StagePushes(stage))
          /\ handles' = [h \in TrackedHandles |->
                           IF h \in Range(StageCreates(stage))
                               THEN StageHandle(h, failed, code)
                               ELSE handles[h]]
    /\ IF stage = "init_commands"
          THEN cmdState' = "initial"
          ELSE UNCHANGED cmdState
    /\ IF stage = "init_sync_structures"
          THEN /\ _renderFence' \in SyncState("_renderFence", "signaled", apiLog')
               /\ semaphores' \in
                     [DOMAIN semaphores ->
                         UNION {SyncState(o, "unsignaled", apiLog') : o \in DOMAIN semaphores}]
               /\ \A o \in DOMAIN semaphores :
                     semaphores'[o] \in SyncState(o, "unsignaled", apiLog')
          ELSE UNCHANGED <<_renderFence, semaphores>>
    /\ IF initPc = Len(InitOrder)
          THEN /\ initPc' = 0
               /\ ctl' = "main"
               /\ _isInitialized' = TRUE
          ELSE /\ initPc' = initPc + 1
               /\ UNCHANGED <<ctl, _isInitialized>>
    /\ UNCHANGED <<frameVars, acquirePending, queue, presentQueue, presented, invoked,
                   bQuit, events, iters, apiCalls>>
    /\ UNCHANGED _selectedShader
    /\ UNCHANGED <<pipeVars, meshVars>>

init_vulkan == InitStage("init_vulkan")
init_swapchain == InitStage("init_swapchain")
init_default_renderpass == InitStage("init_default_renderpass")
init_framebuffers == InitStage("init_framebuffers")
init_commands == InitStage("init_commands")
init_sync_structures == InitStage("init_sync_structures")
init_pipelines == InitStage("init_pipelines")
load_meshes == InitStage("load_meshes")

\* variant: the instance is destroyed before the device
CleanupDestroys_InstanceEarly ==
    << "_allocator", "_surface", "_instance", "_device", "_debug_messenger", "_window" >>

\* what cleanup() destroys itself after the flush, in call order
CleanupDestroys ==
    << "_allocator", "_surface", "_device", "_debug_messenger", "_instance", "_window" >>

\* variant: cleanup() without the test of _isInitialized
cleanup_Unguarded ==
    /\ ctl = "main"
    /\ apiCalls.cleanup < MaxCleanups
    /\ apiCalls' = [apiCalls EXCEPT !.cleanup = @ + 1, !.flush = @ + 1]
    /\ invoked' = invoked \o flush(deletors)
    /\ deletors' = << >>
    /\ apiLog' = apiLog
           \o << Call("wait", "_renderFence",
                      IF _renderFence = "signaled" THEN VK_SUCCESS ELSE VK_TIMEOUT) >>
           \o Destroys(Flatten(flush(deletors)))
           \o Destroys(CleanupDestroys)
    /\ UNCHANGED <<frameVars, gpuVars, ctl, initPc, _isInitialized, handles, faults,
                   bQuit, events, iters>>
    /\ UNCHANGED _selectedShader
    /\ UNCHANGED <<pipeVars, meshVars>>

\* cleanup(): nothing unless _isInitialized; else wait for the fence (the
\* result is dropped), flush the deletion queue, destroy the allocator and
\* the device context.  _isInitialized is left as it is.
cleanup ==
    /\ ctl = "main"
    /\ apiCalls.cleanup < MaxCleanups
    /\ IF _isInitialized
          THEN /\ apiCalls' = [apiCalls EXCEPT !.cleanup = @ + 1, !.flush = @ + 1]
               /\ invoked' = invoked \o flush(deletors)
               /\ deletors' = << >>
               /\ apiLog' = apiLog
                      \o << Call("wait", "_renderFence",
                                 IF _renderFence = "signaled" THEN VK_SUCCESS ELSE VK_TIMEOUT) >>
                      \o Destroys(Flatten(flush(deletors)))
                      \o Destroys(CleanupDestroys)
          ELSE /\ apiCalls' = [apiCalls EXCEPT !.cleanup = @ + 1]
               /\ UNCHANGED <<invoked, deletors, apiLog>>
    /\ UNCHANGED <<frameVars, gpuVars, ctl, initPc, _isInitialized, handles, faults,
                   bQuit, events, iters>>
    /\ UNCHANGED _selectedShader
    /\ UNCHANGED <<pipeVars, meshVars>>

\* run() is called on an initialized engine that has not been cleaned up
CallRun ==
    /\ ctl = "main"
    /\ _isInitialized
    /\ apiCalls.run = 0
    /\ apiCalls.cleanup = 0
    /\ ctl' = "run:test"
    /\ bQuit' = FALSE
    /\ apiCalls' = [apiCalls EXCEPT !.run = @ + 1]
    /\ UNCHANGED <<frameVars, gpuVars, initPc, _isInitialized, deletors, invoked, apiLog,
                   handles, faults, events, iters>>
    /\ UNCHANGED _selectedShader
    /\ UNCHANGED <<pipeVars, meshVars>>

\* while (!bQuit): leave the loop and return, or begin an iteration
RunLoopTest ==
    /\ ctl = "run:test"
    /\ IF bQuit
          THEN /\ ctl' = "main"
               /\ UNCHANGED iters
          ELSE /\ iters < MaxIters
               /\ iters' = iters + 1
               /\ ctl' = "run:poll"
    /\ UNCHANGED <<frameVars, gpuVars, initPc, _isInitialized, deletors, invoked, apiLog,
                   handles, faults, bQuit, events, apiCalls>>
    /\ UNCHANGED _selectedShader
    /\ UNCHANGED <<pipeVars, meshVars>>

\* variant: the event is taken from the queue and its type is not looked at
RunPollEvent_IgnoresQuit ==
    /\ ctl = "run:poll"
    /\ events # << >>
    /\ events' = Tail(events)
    /\ UNCHANGED <<frameVars, gpuVars, ctl, initPc, _isInitialized, deletors, invoked,
                   apiLog, handles, faults, iters, apiCalls, bQuit>>
    /\ UNCHANGED _selectedShader
    /\ UNCHANGED <<pipeVars, meshVars>>

\* SDL_PollEvent returned an event: SDL_QUIT sets bQuit, SDL_KEYDOWN (the
\* key is SDLK_SPACE) steps _selectedShader and wraps it above 1
RunPollEvent ==
    /\ ctl = "run:poll"
    /\ events # << >>
    /\ events' = Tail(events)
    /\ bQuit' = IF Head(events) = "SDL_QUIT" THEN TRUE ELSE bQuit
    /\ _selectedShader' =
          IF Head(events) = "SDL_KEYDOWN"
              THEN (IF _selectedShader + 1 > 1 THEN 0 ELSE _selectedShader + 1)
              ELSE _selectedShader
    /\ UNCHANGED <<frameVars, gpuVars, ctl, initPc, _isInitialized, deletors, invoked,
                   apiLog, handles, faults, iters, apiCalls>>
    /\ UNCHANGED <<pipeVars, meshVars>>

\* variant: once bQuit is set the loop is left without drawing
RunPollEmpty_QuitSkipsDraw ==
    /\ ctl = "run:poll"
    /\ events = << >>
    /\ ctl' = IF bQuit THEN "run:test" ELSE "run:draw"
    /\ UNCHANGED <<frameVars, gpuVars, initPc, _isInitialized, deletors, invoked, apiLog,
                   handles, faults, bQuit, events, iters, apiCalls>>
    /\ UNCHANGED _selectedShader
    /\ UNCHANGED <<pipeVars, meshVars>>

\* SDL_PollEvent returned 0: the inner loop ends, draw() is next
RunPollEmpty ==
    /\ ctl = "run:poll"
    /\ events = << >>
    /\ ctl' = "run:draw"
    /\ UNCHANGED <<frameVars, gpuVars, initPc, _isInitialized, deletors, invoked, apiLog,
                   handles, faults, bQuit, events, iters, apiCalls>>
    /\ UNCHANGED _selectedShader
    /\ UNCHANGED <<pipeVars, meshVars>>

\* draw() is called from the loop
RunDrawEnter ==
    /\ ctl = "run:draw"
    /\ drawCalls < iters
    /\ DrawEnter

\* draw() has returned: back to the loop test
RunDrawReturn ==
    /\ ctl = "run:draw"
    /\ pc = 0
    /\ drawCalls = iters
    /\ ctl' = "run:test"
    /\ UNCHANGED <<frameVars, gpuVars, initPc, _isInitialized, deletors, invoked, apiLog,
                   handles, faults, bQuit, events, iters, apiCalls>>
    /\ UNCHANGED _selectedShader
    /\ UNCHANGED <<pipeVars, meshVars>>

\* the window system posts an event while run() is active and an iteration
\* remains that will poll it
PostEvent ==
    /\ \/ ctl = "run:poll"
       \/ ctl \in {"run:test", "run:draw"} /\ iters < MaxIters
    /\ apiCalls.events < MaxEvents
    /\ \E e \in {"SDL_QUIT", "SDL_KEYDOWN"} : events' = Append(events, e)
    /\ apiCalls' = [apiCalls EXCEPT !.events = @ + 1]
    /\ UNCHANGED <<frameVars, gpuVars, ctl, initPc, _isInitialized, deletors, invoked,
                   apiLog, handles, faults, bQuit, iters>>
    /\ UNCHANGED _selectedShader
    /\ UNCHANGED <<pipeVars, meshVars>>

\* the statements of draw() and the GPU
FrameStep ==
    \/ WaitForFences
    \/ ResetFences
    \/ AcquireNextImage
    \/ ResetCommandBuffer
    \/ BeginCommandBuffer
    \/ RecordCommands
    \/ EndCommandBuffer
    \/ QueueSubmit
    \/ QueuePresent
    \/ AdvanceFrame

GPUStep ==
    \/ ImageReady
    \/ GPUBeginColorOutput
    \/ GPUComplete
    \/ PresentExecute

LifeNext ==
    \/ CallInit
    \/ init_vulkan
    \/ init_swapchain
    \/ init_default_renderpass
    \/ init_framebuffers
    \/ init_commands
    \/ init_sync_structures
    \/ init_pipelines
    \/ load_meshes
    \/ cleanup
    \/ CallRun
    \/ RunLoopTest
    \/ RunPollEvent
    \/ RunPollEmpty
    \/ RunDrawEnter
    \/ RunDrawReturn
    \/ PostEvent
    \/ FrameStep
    \/ GPUStep

SpecLife == LifeInit /\ [][LifeNext]_vars

\* init() and cleanup() without the frame loop
InitNext ==
    \/ CallInit
    \/ init_vulkan
    \/ init_swapchain
    \/ init_default_renderpass
    \/ init_framebuffers
    \/ init_commands
    \/ init_sync_structures
    \/ init_pipelines
    \/ load_meshes
    \/ cleanup

SpecInit == LifeInit /\ [][InitNext]_vars

\* run() on an engine whose init() succeeded in every call
RunInit ==
    /\ InitializedEngine
    /\ ctl = "main"

RunNext ==
    \/ CallRun
    \/ RunLoopTest
    \/ RunPollEvent
    \/ RunPollEmpty
    \/ RunDrawEnter
    \/ RunDrawReturn
    \/ PostEvent
    \/ FrameStep
    \/ GPUStep

\* the single thread keeps running while it is inside run()
RunStep ==
    \/ RunLoopTest
    \/ RunPollEvent
    \/ RunPollEmpty
    \/ RunDrawEnter
    \/ RunDrawReturn
    \/ FrameStep

SpecRunFair == RunInit /\ [][RunNext]_vars /\ WF_vars(RunStep)

\* ------------------------------------------------- a DeletionQueue on its own
\* closures pushed by a caller of DeletionQueue
DQClosures == { << "a" >>, << "b", "c" >> }

DQInit ==
    /\ Constructed
    /\ ctl = "queue"

\* push_function(fn) on a queue that holds fewer than MaxPush closures
DQPush ==
    /\ ctl = "queue"
    /\ Len(deletors) < MaxPush
    /\ apiCalls.flush < MaxPush
    /\ \E fn \in DQClosures : deletors' = push_function(deletors, fn)
    /\ UNCHANGED <<frameVars, gpuVars, ctl, initPc, _isInitialized, invoked, apiLog,
                   handles, faults, bQuit, events, iters, apiCalls>>
    /\ UNCHANGED _selectedShader
    /\ UNCHANGED <<pipeVars, meshVars>>

\* flush(): every closure is invoked, then the queue is cleared
DQFlush ==
    /\ ctl = "queue"
    /\ apiCalls.flush < MaxPush
    /\ apiCalls' = [apiCalls EXCEPT !.flush = @ + 1]
    /\ invoked' = invoked \o flush(deletors)
    /\ apiLog' = apiLog \o Destroys(Flatten(flush(deletors)))
    /\ deletors' = << >>
    /\ UNCHANGED <<frameVars, gpuVars, ctl, initPc, _isInitialized,
                   handles, faults, bQuit, events, iters>>
    /\ UNCHANGED _selectedShader
    /\ UNCHANGED <<pipeVars, meshVars>>

DQNext ==
    \/ DQPush
    \/ DQFlush

SpecDQ == DQInit /\ [][DQNext]_vars

\* ============================================== init_pipelines(), statement by statement
\* largest shader file explored, in 32-bit words
MaxFileWords == 1
\* number of build_pipeline calls a caller of PipelineBuilder makes
MaxBuilds == 2

sizeof_uint32_t == 4
sizeof_vec4 == 16
sizeof_mat4 == 64

\* variant: the push constants hold the matrix only
sizeof_MeshPushConstants_MatrixOnly == sizeof_mat4

\* struct MeshPushConstants { glm::vec4 data; glm::mat4 render_matrix; }
sizeof_MeshPushConstants == sizeof_vec4 + sizeof_mat4

\* the sizes in bytes a file on disk can have: any number of bytes up to
\* MaxFileWords words and a partial word
FileSizes == 0..(sizeof_uint32_t * MaxFileWords + sizeof_uint32_t - 1)

\* the shader files found on disk: one that cannot be opened, or one of
\* size bytes
Files ==
    { [ is_open |-> FALSE, size |-> 0 ] }
        \cup { [ is_open |-> TRUE, size |-> n ] : n \in FileSizes }

\* the file of a shader that loads
WholeFile == [ is_open |-> TRUE, size |-> sizeof_uint32_t * MaxFileWords ]

DeviceCall(call, info, result) == [call |-> call, info |-> info, result |-> result]

\* the results the device can give to vkCreateShaderModule
ShaderModuleResults == {VK_SUCCESS, VK_ERROR_OUT_OF_HOST_MEMORY}

\* load_shader_module(filePath, outShaderModule): the value returned, what
\* *outShaderModule holds afterwards and the device call made, given the file
\* found, the result of vkCreateShaderModule and *outShaderModule before;
\* read is the number of bytes file.read() stores through buffer.data(),
\* capacity the number of bytes the vector of words holds
load_shader_module(file, deviceResult, out) ==
    IF ~ file.is_open
        THEN [ returned |-> FALSE, out |-> out, device |-> << >>, read |-> 0, capacity |-> 0 ]
        ELSE LET fileSize == file.size
                 buffer_size == fileSize \div sizeof_uint32_t
                 createInfo == [ codeSize |-> buffer_size * sizeof_uint32_t ]
                 call == DeviceCall("vkCreateShaderModule", createInfo, deviceResult)
             IN  [ returned |-> deviceResult = VK_SUCCESS,
                   out      |-> IF deviceResult # VK_SUCCESS THEN out ELSE "module",
                   device   |-> << call >>,
                   read     |-> fileSize,
                   capacity |-> buffer_size * sizeof_uint32_t ]

\* vkinit::pipeline_layout_create_info(), with the push constant range that
\* init_pipelines() adds for the mesh layout
PipelineLayoutInfo(layout) ==
    IF layout = "_meshPipelineLayout"
        THEN [ pushConstantRanges |->
                  << [ offset     |-> 0,
                       size       |-> sizeof_MeshPushConstants,
                       stageFlags |-> {"VK_SHADER_STAGE_VERTEX_BIT"} ] >> ]
        ELSE [ pushConstantRanges |-> << >> ]

\* VkGraphicsPipelineCreateInfo as build_pipeline fills it from the builder
PipelineInfo(b) ==
    [ stageCount          |-> Len(b._shaderStages),
      pStages             |-> b._shaderStages,
      pVertexInputState   |-> b._vertexInputInfo,
      pInputAssemblyState |-> b._inputAssembly,
      pViewportState      |-> [ viewportCount |-> 1, pViewports |-> b._viewport,
                                scissorCount  |-> 1, pScissors  |-> b._scissor ],
      pRasterizationState |-> b._rasterizer,
      pMultisampleState   |-> b._multisampling,
      pColorBlendState    |-> [ attachmentCount |-> 1, pAttachments |-> b._colorBlendAttachment ],
      layout              |-> b._pipelineLayout,
      subpass             |-> 0,
      pDepthStencilState  |-> b._depthStencil ]

\* a create-info the device's rules allow: at least one stage, every stage a
\* created module
ValidPipelineInfo(info) ==
    /\ info.stageCount >= 1
    /\ \A k \in 1..info.stageCount : info.pStages[k].module = "module"

\* the statements of init_pipelines() that matter, in program order
InitPipelinesOrder ==
    << [ op |-> "load",   module |-> "helloTriangleFragShader" ],
       [ op |-> "load",   module |-> "helloTriangleVertexShader" ],
       [ op |-> "load",   module |-> "altHelloFragShader" ],
       [ op |-> "load",   module |-> "altHelloVertexShader" ],
       [ op |-> "layout", layout |-> "_trianglePipelineLayout" ],
       [ op |-> "push",   stage |-> "VK_SHADER_STAGE_VERTEX_BIT",
                          module |-> "helloTriangleVertexShader" ],
       [ op |-> "push",   stage |-> "VK_SHADER_STAGE_FRAGMENT_BIT",
                          module |-> "helloTriangleFragShader" ],
       [ op |-> "configure" ],
       [ op |-> "build",  pipeline |-> "_trianglePipeline" ],
       [ op |-> "clear" ],
       [ op |-> "push",   stage |-> "VK_SHADER_STAGE_VERTEX_BIT",
                          module |-> "altHelloVertexShader" ],
       [ op |-> "push",   stage |-> "VK_SHADER_STAGE_FRAGMENT_BIT",
                          module |-> "altHelloFragShader" ],
       [ op |-> "build",  pipeline |-> "_altTrianglePipeline" ],
       [ op |-> "vertexInput" ],
       [ op |-> "clear" ],
       [ op |-> "load",   module |-> "meshVertexShader" ],
       [ op |-> "push",   stage |-> "VK_SHADER_STAGE_VERTEX_BIT",
                          module |-> "meshVertexShader" ],
       [ op |-> "push",   stage |-> "VK_SHADER_STAGE_FRAGMENT_BIT",
                          module |-> "altHelloFragShader" ],
       [ op |-> "layout", layout |-> "_meshPipelineLayout" ],
       [ op |-> "setLayout", layout |-> "_meshPipelineLayout" ],
       [ op |-> "build",  pipeline |-> "_meshPipeline" ],
       [ op |-> "finish" ] >>

\* the statement init_pipelines() is at
IPAt(op) ==
    /\ ctl = "pipelines"
    /\ ipPc \in 1..Len(InitPipelinesOrder)
    /\ InitPipelinesOrder[ipPc].op = op

\* what no statement of init_pipelines() or call on a PipelineBuilder touches
pipeFrame == <<frameVars, gpuVars, ctl, initPc, _isInitialized, invoked, apiLog,
               bQuit, events, iters, apiCalls, _selectedShader, meshVars>>

\* what a load_shader_module call leaves alone
loadFrame == <<frameVars, gpuVars, initPc, _isInitialized, invoked, apiLog,
               bQuit, events, iters, apiCalls, _selectedShader, meshVars>>

\* if (!load_shader_module(path, &module)) { print } else { print }; a read
\* that stores past the end of the buffer has no defined outcome: the call
\* goes on as if nothing had happened, or the process ends there
IPLoadShader ==
    /\ IPAt("load")
    /\ \E file \in Files : \E deviceResult \in ShaderModuleResults :
          LET m == InitPipelinesOrder[ipPc].module
              r == load_shader_module(file, deviceResult, shaderModules[m])
              fault == IF file = WholeFile /\ deviceResult = VK_SUCCESS THEN 0 ELSE 1
          IN  /\ ~ file.is_open => deviceResult = VK_SUCCESS
              /\ faults + fault <= MaxFaults
              /\ faults' = faults + fault
              /\ shaderModules' = [shaderModules EXCEPT ![m] = r.out]
              /\ deviceCalls' = deviceCalls \o r.device
              /\ loadLog' = Append(loadLog, [ module |-> m, file |-> file,
                                              returned |-> r.returned,
                                              before |-> shaderModules[m],
                                              after |-> r.out,
                                              device |-> r.device,
                                              read |-> r.read,
                                              capacity |-> r.capacity ])
              /\ \E crashed \in (IF r.read > r.capacity THEN {TRUE, FALSE} ELSE {FALSE}) :
                    ctl' = IF crashed THEN "crashed" ELSE ctl
    /\ ipPc' = ipPc + 1
    /\ UNCHANGED <<loadFrame, pipelineBuilder, handles, deletors>>

\* VK_CHECK(vkCreatePipelineLayout(_device, &info, nullptr, &layout))
IPCreateLayout ==
    /\ IPAt("layout")
    /\ \E result \in {VK_SUCCESS, VK_ERROR_OUT_OF_HOST_MEMORY} :
          /\ faults + (IF result = VK_SUCCESS THEN 0 ELSE 1) <= MaxFaults
          /\ faults' = faults + (IF result = VK_SUCCESS THEN 0 ELSE 1)
          /\ deviceCalls' = Append(deviceCalls,
                                   DeviceCall("vkCreatePipelineLayout",
                                              PipelineLayoutInfo(InitPipelinesOrder[ipPc].layout),
                                              result))
    /\ ipPc' = ipPc + 1
    /\ UNCHANGED <<pipeFrame, pipelineBuilder, shaderModules, loadLog, handles, deletors>>

\* pipelineBuilder._shaderStages.push_back(
\*     vkinit::pipeline_shader_stage_create_info(stage, module))
IPPushStage ==
    /\ IPAt("push")
    /\ pipelineBuilder' =
          [pipelineBuilder EXCEPT !._shaderStages =
              Append(@, [ stage  |-> InitPipelinesOrder[ipPc].stage,
                          module |-> shaderModules[InitPipelinesOrder[ipPc].module] ])]
    /\ ipPc' = ipPc + 1
    /\ UNCHANGED <<pipeFrame, shaderModules, deviceCalls, loadLog, handles, deletors, faults>>

\* the fixed-function fields set before the first build
IPConfigure ==
    /\ IPAt("configure")
    /\ pipelineBuilder' =
          [pipelineBuilder EXCEPT
              !._vertexInputInfo      = "vertex_input_state_create_info()",
              !._inputAssembly        = "VK_PRIMITIVE_TOPOLOGY_TRIANGLE_LIST",
              !._viewport             = "_windowExtent",
              !._scissor              = "_windowExtent",
              !._rasterizer           = "VK_POLYGON_MODE_FILL",
              !._multisampling        = "multisampling_state_create_info()",
              !._colorBlendAttachment = "color_blend_attachment_state()",
              !._pipelineLayout       = "_trianglePipelineLayout",
              !._depthStencil         = "VK_COMPARE_OP_LESS_OR_EQUAL"]
    /\ ipPc' = ipPc + 1
    /\ UNCHANGED <<pipeFrame, shaderModules, deviceCalls, loadLog, handles, deletors, faults>>

\* pipelineBuilder._shaderStages.clear()
IPClearStages ==
    /\ IPAt("clear")
    /\ pipelineBuilder' = [pipelineBuilder EXCEPT !._shaderStages = << >>]
    /\ ipPc' = ipPc + 1
    /\ UNCHANGED <<pipeFrame, shaderModules, deviceCalls, loadLog, handles, deletors, faults>>

\* variant: the topology is changed along with the vertex input
IPSetVertexInput_AlsoTopology ==
    /\ IPAt("vertexInput")
    /\ pipelineBuilder' =
          [pipelineBuilder EXCEPT !._vertexInputInfo = "Vertex::get_vertex_description()",
                                  !._inputAssembly = "VK_PRIMITIVE_TOPOLOGY_LINE_LIST"]
    /\ ipPc' = ipPc + 1
    /\ UNCHANGED <<pipeFrame, shaderModules, deviceCalls, loadLog, handles, deletors, faults>>

\* the vertex input info is pointed at Vertex::get_vertex_description()
IPSetVertexInput ==
    /\ IPAt("vertexInput")
    /\ pipelineBuilder' =
          [pipelineBuilder EXCEPT !._vertexInputInfo = "Vertex::get_vertex_description()"]
    /\ ipPc' = ipPc + 1
    /\ UNCHANGED <<pipeFrame, shaderModules, deviceCalls, loadLog, handles, deletors, faults>>

\* pipelineBuilder._pipelineLayout = _meshPipelineLayout
IPSetLayout ==
    /\ IPAt("setLayout")
    /\ pipelineBuilder' =
          [pipelineBuilder EXCEPT !._pipelineLayout = InitPipelinesOrder[ipPc].layout]
    /\ ipPc' = ipPc + 1
    /\ UNCHANGED <<pipeFrame, shaderModules, deviceCalls, loadLog, handles, deletors, faults>>

\* target = pipelineBuilder.build_pipeline(_device, _renderPass): the
\* create-info goes to the device whatever it holds; a request the device's
\* rules forbid can come back with any result
BuildPipeline(target) ==
    \E result \in {VK_SUCCESS, VK_ERROR_OUT_OF_HOST_MEMORY, VK_PIPELINE_COMPILE_REQUIRED} :
        LET info == PipelineInfo(pipelineBuilder)
            fault == IF result # VK_SUCCESS /\ ValidPipelineInfo(info) THEN 1 ELSE 0
        IN  /\ faults + fault <= MaxFaults
            /\ faults' = faults + fault
            /\ deviceCalls' = Append(deviceCalls,
                                     DeviceCall("vkCreateGraphicsPipelines", info, result))
            /\ handles' = [handles EXCEPT ![target] = build_pipeline(result, "handle")]

IPBuild ==
    /\ IPAt("build")
    /\ BuildPipeline(InitPipelinesOrder[ipPc].pipeline)
    /\ ipPc' = ipPc + 1
    /\ UNCHANGED <<pipeFrame, pipelineBuilder, shaderModules, loadLog, deletors>>

\* the shader modules are destroyed, the closure that destroys pipelines and
\* layouts is pushed, init_pipelines() returns
IPFinish ==
    /\ IPAt("finish")
    /\ deviceCalls' = deviceCalls \o
          [k \in 1..Len(StageDestroys("init_pipelines")) |->
              DeviceCall("vkDestroyShaderModule",
                         [ module |-> StageDestroys("init_pipelines")[k],
                           handle |-> shaderModules[StageDestroys("init_pipelines")[k]] ],
                         VK_SUCCESS)]
    /\ shaderModules' = [m \in ShaderModules |-> "destroyed"]
    /\ deletors' = PushAll(deletors, StagePushes("init_pipelines"))
    /\ ipPc' = 0
    /\ UNCHANGED <<pipeFrame, pipelineBuilder, loadLog, handles, faults>>

PipelinesInit ==
    /\ Constructed
    /\ ctl = "pipelines"

\* init_pipelines() is entered
IPEnter ==
    /\ ctl = "pipelines"
    /\ ipPc = 0
    /\ deviceCalls = << >>
    /\ ipPc' = 1
    /\ UNCHANGED <<pipeFrame, pipelineBuilder, shaderModules, deviceCalls, loadLog,
                   handles, deletors, faults>>

PipelinesNext ==
    \/ IPEnter
    \/ IPLoadShader
    \/ IPCreateLayout
    \/ IPPushStage
    \/ IPConfigure
    \/ IPClearStages
    \/ IPSetVertexInput
    \/ IPSetLayout
    \/ IPBuild
    \/ IPFinish

SpecPipelines == PipelinesInit /\ [][PipelinesNext]_vars

\* ------------------------------------------ a PipelineBuilder and its caller
\* the stages a caller can push: a stage bit and a created module
BuilderStages ==
    [ stage : {"VK_SHADER_STAGE_VERTEX_BIT", "VK_SHADER_STAGE_FRAGMENT_BIT"},
      module : {"module"} ]

BuilderInit ==
    /\ Constructed
    /\ ctl = "builder"

\* builder._shaderStages.push_back(stage)
PBPushStage ==
    /\ ctl = "builder"
    /\ Len(pipelineBuilder._shaderStages) < 2
    /\ Len(deviceCalls) < MaxBuilds
    /\ \E st \in BuilderStages :
          pipelineBuilder' = [pipelineBuilder EXCEPT !._shaderStages = Append(@, st)]
    /\ UNCHANGED <<pipeFrame, ipPc, shaderModules, deviceCalls, loadLog, handles,
                   deletors, faults>>

\* builder._shaderStages.clear()
PBClearStages ==
    /\ ctl = "builder"
    /\ pipelineBuilder._shaderStages # << >>
    /\ pipelineBuilder' = [pipelineBuilder EXCEPT !._shaderStages = << >>]
    /\ UNCHANGED <<pipeFrame, ipPc, shaderModules, deviceCalls, loadLog, handles,
                   deletors, faults>>

\* pipeline = builder.build_pipeline(device, pass)
PBBuild ==
    /\ ctl = "builder"
    /\ Len(deviceCalls) < MaxBuilds
    /\ BuildPipeline("_trianglePipeline")
    /\ UNCHANGED <<pipeFrame, ipPc, pipelineBuilder, shaderModules, loadLog, deletors>>

BuilderNext ==
    \/ PBPushStage
    \/ PBClearStages
    \/ PBBuild

SpecBuilder == BuilderInit /\ [][BuilderNext]_vars

\* ================================================ upload_mesh(), statement by statement
\* largest number of vertices of an uploaded mesh
MaxVertices == 2

\* struct Vertex: position, normal, color, each three 32-bit floats
sizeof_Vertex == 36

\* the vertices a mesh is made of
VertexValues == {0, 1, 2}

\* the bytes of one Vertex in memory
VertexBytes(v) == [i \in 1..sizeof_Vertex |-> (v * sizeof_Vertex + i) % 256]

\* mesh._vertices.data(): the bytes of the vertex list, in order
VerticesData(vs) == Flatten([k \in 1..Len(vs) |-> VertexBytes(vs[k])])

\* mesh._vertices.size() * sizeof(Vertex)
CopySize(vs) == Len(vs) * sizeof_Vertex

\* memcpy(dest, src, n): the first n bytes of dest become those of src
memcpy(dest, src, n) == [i \in 1..Len(dest) |-> IF i <= n THEN src[i] ELSE dest[i]]

\* the statements of upload_mesh(), in program order
UploadOrder ==
    << "vmaCreateBuffer", "push_function", "vmaMapMemory", "memcpy", "vmaUnmapMemory" >>

UpAt(stmt) ==
    /\ ctl = "mesh"
    /\ upPc \in 1..Len(UploadOrder)
    /\ UploadOrder[upPc] = stmt

\* what no statement of upload_mesh() touches
meshFrame == <<frameVars, gpuVars, ctl, initPc, _isInitialized, invoked, apiLog, handles,
               bQuit, events, iters, apiCalls, _selectedShader, pipeVars>>

MeshCall(call, arg, valid) == [call |-> call, arg |-> arg, valid |-> valid]

\* the allocation of _vertexBuffer exists
Allocated == _vertexBuffer._buffer = "handle"

MeshInit ==
    /\ Constructed
    /\ ctl = "mesh"

\* upload_mesh(mesh) is called with a mesh of up to MaxVertices vertices
UploadEnter ==
    /\ ctl = "mesh"
    /\ upPc = 0
    /\ meshCalls = << >>
    /\ \E K \in 0..MaxVertices : \E vs \in [1..K -> VertexValues] : _vertices' = vs
    /\ upPc' = 1
    /\ UNCHANGED <<meshFrame, _vertexBuffer, data, meshCalls, deletors, faults>>

\* VK_CHECK(vmaCreateBuffer(_allocator, &bufferInfo, &vmaAllocInfo, ...)) with
\* bufferInfo.size = mesh._vertices.size() * sizeof(Vertex); a request for 0
\* bytes is outside the rules of the device and can come back either way
UpCreateBuffer ==
    /\ UpAt("vmaCreateBuffer")
    /\ \E result \in {VK_SUCCESS, VK_ERROR_OUT_OF_HOST_MEMORY} :
          LET size == CopySize(_vertices)
              fault == IF result # VK_SUCCESS /\ size > 0 THEN 1 ELSE 0
          IN  /\ faults + fault <= MaxFaults
              /\ faults' = faults + fault
              /\ VK_CHECK(result)
              /\ _vertexBuffer' =
                    IF result = VK_SUCCESS
                        THEN [ _buffer |-> "handle", size |-> size,
                               memory |-> [i \in 1..size |-> 0], mapped |-> FALSE ]
                        ELSE [ _buffer |-> VK_NULL_HANDLE, size |-> 0,
                               memory |-> << >>, mapped |-> FALSE ]
              /\ meshCalls' = Append(meshCalls,
                                     MeshCall("vmaCreateBuffer", size, result = VK_SUCCESS))
    /\ upPc' = upPc + 1
    /\ UNCHANGED <<meshFrame, _vertices, data, deletors>>

\* _mainDeletionQueue.push_function([=]() { vmaDestroyBuffer(...) })
UpPushDeletor ==
    /\ UpAt("push_function")
    /\ deletors' = push_function(deletors, << "mesh._vertexBuffer" >>)
    /\ upPc' = upPc + 1
    /\ UNCHANGED <<meshFrame, _vertices, _vertexBuffer, data, meshCalls, faults>>

\* vmaMapMemory(_allocator, mesh._vertexBuffer._allocation, &data)
UpMapMemory ==
    /\ UpAt("vmaMapMemory")
    /\ data' = IF Allocated THEN "mapped" ELSE "invalid"
    /\ _vertexBuffer' = [_vertexBuffer EXCEPT !.mapped = Allocated]
    /\ meshCalls' = Append(meshCalls, MeshCall("vmaMapMemory", 0, Allocated))
    /\ upPc' = upPc + 1
    /\ UNCHANGED <<meshFrame, _vertices, deletors, faults>>

\* memcpy(data, mesh._vertices.data(), mesh._vertices.size() * sizeof(Vertex))
UpMemcpy ==
    /\ UpAt("memcpy")
    /\ _vertexBuffer' =
          IF data = "mapped" /\ _vertexBuffer.mapped
              THEN [_vertexBuffer EXCEPT
                       !.memory = memcpy(@, VerticesData(_vertices), CopySize(_vertices))]
              ELSE _vertexBuffer
    /\ meshCalls' = Append(meshCalls,
                           MeshCall("memcpy", CopySize(_vertices),
                                    data = "mapped" /\ _vertexBuffer.mapped))
    /\ upPc' = upPc + 1
    /\ UNCHANGED <<meshFrame, _vertices, data, deletors, faults>>

\* vmaUnmapMemory(_allocator, mesh._vertexBuffer._allocation); upload_mesh returns
UpUnmapMemory ==
    /\ UpAt("vmaUnmapMemory")
    /\ _vertexBuffer' = [_vertexBuffer EXCEPT !.mapped = FALSE]
    /\ data' = "unmapped"
    /\ meshCalls' = Append(meshCalls, MeshCall("vmaUnmapMemory", 0, Allocated))
    /\ upPc' = upPc + 1
    /\ UNCHANGED <<meshFrame, _vertices, deletors, faults>>

\* draw() binds the vertex buffer of the mesh and draws _vertices.size() vertices
MeshDraw ==
    /\ ctl = "mesh"
    /\ upPc = Len(UploadOrder) + 1
    /\ Len(meshCalls) < Len(UploadOrder) + 1
    /\ meshCalls' = meshCalls
                      \o << MeshCall("vkCmdBindVertexBuffers", 0, Allocated),
                            MeshCall("vkCmdDraw", Len(_vertices), TRUE) >>
    /\ UNCHANGED <<meshFrame, upPc, _vertices, _vertexBuffer, data, deletors, faults>>

MeshNext ==
    \/ UploadEnter
    \/ UpCreateBuffer
    \/ UpPushDeletor
    \/ UpMapMemory
    \/ UpMemcpy
    \/ UpUnmapMemory
    \/ MeshDraw

SpecMesh == MeshInit /\ [][MeshNext]_vars

TypeOK ==
    /\ pc \in 0..Len(DrawOrder)
    /\ drawCalls \in 0..MaxDraws
    /\ _frameNumber \in 0..MaxDraws
    /\ _renderFence \in {"uninit", "signaled", "unsignaled"}
    /\ cmdState \in {"uninit", "initial", "recording", "executable", "pending", "invalid"}
    /\ ctl \in {"frames", "queue", "main", "init", "run:test", "run:poll", "run:draw",
               "pipelines", "builder", "mesh", "crashed"}
    /\ ipPc \in 0..Len(InitPipelinesOrder)
    /\ upPc \in 0..(Len(UploadOrder) + 1)
    /\ data \in {"unset", "mapped", "invalid", "unmapped"}
    /\ initPc \in 0..Len(InitOrder)
    /\ faults \in 0..MaxFaults
    /\ iters \in 0..MaxIters
    /\ swapchainImageIndex \in 0..NumImages
    /\ _selectedShader \in {0, 1}
    /\ boundPipeline \in Pipelines \cup {"none"}
    /\ Len(recorded.commands) \in 0..(MaxDraws * Len(RenderCommands))
    /\ recorded.framebuffer \in Int

\* ===================================================================== claims

IsPrefix(s, t) == Len(s) <= Len(t) /\ s = SubSeq(t, 1, Len(s))

Before(s, a, b) ==
    \A i \in 1..Len(s) : s[i] = b => \E j \in 1..(i - 1) : s[j] = a

\* C1: the CPU resets the command buffer only after it has observed the
\* render fence signaled for the previous submission, never while a
\* submission of that command buffer is still unfinished on the GPU.
C1_ResetOnlyAfterFenceObserved ==
    [][ (At("vkResetCommandBuffer") /\ pc' # pc)
            => (waitResult = VK_SUCCESS /\ queue = << >>) ]_vars

\* C2: in every non-minimized draw() the fence wait is issued before the
\* fence reset, and before the command-buffer reset, of the same frame.
C2_WaitPrecedesResets ==
    /\ Before(calls, "vkWaitForFences", "vkResetFences")
    /\ Before(calls, "vkWaitForFences", "vkResetCommandBuffer")

\* a second frame has reset both the fence and the command buffer
C2_Witness ==
    /\ drawCalls = 2
    /\ {"vkResetFences", "vkResetCommandBuffer"} \subseteq Range(calls)

\* C3: vkResetFences is executed only when the fence wait of that frame
\* returned success.
C3_FenceResetOnlyAfterSuccessfulWait ==
    "vkResetFences" \in Range(calls) => waitResult = VK_SUCCESS

\* C4: once the fence wait or the image acquisition has timed out, the frame
\* loop halts: draw() issues no further call and is not entered again.
C4_TimeoutIsFatal ==
    [][ (waitResult = VK_TIMEOUT \/ acquireResult = VK_TIMEOUT)
            => (calls' = calls /\ drawCalls' = drawCalls) ]_vars

\* C5: when image acquisition fails, the frame is abandoned: nothing is
\* recorded, submitted or presented in that frame.
C5_FailedAcquireAbandonsFrame ==
    acquireResult = VK_ERROR_OUT_OF_DATE_KHR
        => Range(calls) \cap {"vkBeginCommandBuffer", "vkCmdRecord", "vkEndCommandBuffer",
                              "vkQueueSubmit", "vkQueuePresentKHR"} = {}

\* C6: at most one submission made by draw() is unfinished on the GPU.
C6_SingleSubmissionInFlight ==
    Len(queue) <= 1

C9_CommandBufferResetBeforeAcquire ==
    IsPrefix(calls,
        << "vkWaitForFences", "vkResetFences", "vkResetCommandBuffer",
           "vkAcquireNextImageKHR", "vkBeginCommandBuffer", "vkCmdRecord",
           "vkEndCommandBuffer", "vkQueueSubmit", "vkQueuePresentKHR", "frameNumber++" >>)

\* C9 amended: each non-minimized draw() goes, in this strict order, through
\* fence wait, fence reset, acquire, command-buffer reset, record, submit,
\* present, advance; a draw() that has returned went through all of them.
C9_StrictFrameOrder ==
    LET order == << "vkWaitForFences", "vkResetFences", "vkAcquireNextImageKHR",
                    "vkResetCommandBuffer", "vkBeginCommandBuffer", "vkCmdRecord",
                    "vkEndCommandBuffer", "vkQueueSubmit", "vkQueuePresentKHR",
                    "frameNumber++" >>
    IN  /\ IsPrefix(calls, order)
        /\ pc # 0 => Len(calls) = pc - 1
        /\ pc = 0 => Len(calls) \in {0, Len(order)}

\* a non-minimized draw() has returned
C9_Witness ==
    /\ pc = 0
    /\ Len(calls) = 10
    /\ drawCalls = 1

\* C10: a draw() with the window minimized issues no call, touches no GPU
\* state and leaves _frameNumber unchanged; _frameNumber changes only when a
\* non-minimized draw() returns, by exactly 1, after present was issued.
C10_MinimizedShortCircuit ==
    [][ /\ (drawCalls' # drawCalls /\ "SDL_WINDOW_MINIMIZED" \in windowFlags)
              => /\ pc' = 0
                 /\ calls' = << >>
                 /\ _frameNumber' = _frameNumber
                 /\ UNCHANGED gpuVars
        /\ (_frameNumber' # _frameNumber)
              => /\ _frameNumber' = _frameNumber + 1
                 /\ calls[Len(calls)] = "vkQueuePresentKHR"
                 /\ pc' = 0
        /\ (pc # 0 /\ pc' = 0)
              => _frameNumber' = _frameNumber + 1 ]_vars

\* a minimized draw() has returned after a frame was drawn
C10_Witness ==
    /\ pc = 0
    /\ "SDL_WINDOW_MINIMIZED" \in windowFlags
    /\ drawCalls = 2
    /\ calls = << >>
    /\ _frameNumber = 1

\* ------------------------------------------------------ life cycle claims
RECURSIVE Reverse(_)
Reverse(q) == IF q = << >> THEN << >> ELSE Append(Reverse(Tail(q)), Head(q))

ObjsOf(log) == [k \in 1..Len(log) |-> log[k].obj]

IsCreate(e) == e.op = "create"
IsDestroy(e) == e.op = "destroy"

Count(log, op, obj) == Cardinality({k \in 1..Len(log) : log[k].op = op /\ log[k].obj = obj})

C12_QueueTouchedOnlyByInitAndCleanup ==
    [][ /\ Len(deletors') > Len(deletors) => ctl = "init"
        /\ (invoked' # invoked \/ Len(deletors') < Len(deletors))
              => (ctl = "main" /\ apiCalls'.cleanup = apiCalls.cleanup + 1)
        /\ ctl \notin {"init", "main"} => (deletors' = deletors /\ invoked' = invoked) ]_vars

\* run() has drawn a frame and returned, and cleanup() has flushed the queue
C12_Witness ==
    /\ apiCalls.run = 1
    /\ _frameNumber >= 1
    /\ ctl = "main"
    /\ invoked # << >>
    /\ deletors = << >>

\* the resources of C13: everything a closure of the queue destroys
QueueResources == Range(Flatten(invoked))

\* C13: cleanup() destroys the resources created by init() in exactly the
\* reverse of the order in which they were created.
C13_DestroyedInReverseCreationOrder ==
    (apiCalls.init = 1 /\ apiCalls.cleanup = 1 /\ invoked # << >> /\ faults = 0)
        => ObjsOf(SelectSeq(apiLog, LAMBDA e : IsDestroy(e) /\ e.obj \in QueueResources))
             = Reverse(ObjsOf(SelectSeq(apiLog,
                                        LAMBDA e : IsCreate(e) /\ e.obj \in QueueResources)))

\* the destroy calls of the cleanup() that begins at entry w of the log
CleanupSegment(w) ==
    LET end == IF \E k \in (w + 1)..Len(apiLog) : ~ IsDestroy(apiLog[k])
                  THEN (CHOOSE k \in (w + 1)..Len(apiLog) :
                           /\ ~ IsDestroy(apiLog[k])
                           /\ \A j \in (w + 1)..(k - 1) : IsDestroy(apiLog[j])) - 1
                  ELSE Len(apiLog)
    IN  ObjsOf(SubSeq(apiLog, w + 1, end))

\* C14: in every cleanup() all closures of the queue have run before the
\* allocator is destroyed, surface, device, debug messenger and instance are
\* destroyed after every other resource, and of these the instance is last.
C14_ContextDestroyedLast ==
    \A w \in 1..Len(apiLog) :
        apiLog[w].op = "wait" =>
            LET seg == CleanupSegment(w)
                context == {"_surface", "_device", "_debug_messenger", "_instance"}
                At1(o) == CHOOSE k \in 1..Len(seg) : seg[k] = o
            IN  /\ context \cup {"_allocator", "_window"} \subseteq Range(seg)
                /\ \A k \in 1..Len(seg) :
                      seg[k] \notin (context \cup {"_allocator", "_window"})
                          => k < At1("_allocator")
                /\ \A o \in context : At1("_allocator") < At1(o)
                /\ \A o \in context \ {"_instance"} : At1(o) < At1("_instance")
                /\ \A k \in 1..Len(seg) :
                      k > At1("_instance") => seg[k] = "_window"

\* cleanup() has run after a complete init()
C14_Witness ==
    /\ apiCalls.cleanup = 1
    /\ apiCalls.init = 1
    /\ Len(invoked) > 5
    /\ apiLog[Len(apiLog)].obj = "_window"
    /\ IsDestroy(apiLog[Len(apiLog)])

\* the resources allocated through _allocator
AllocatorResources == {"_depthImage", "_triangleMesh._vertexBuffer", "_monkeyMesh._vertexBuffer"}

\* the closures registered so far, flushed or not
Registered == invoked \o deletors

\* C15: every resource allocated through the allocator has exactly one
\* closure registered for it, and a closure is registered only for an
\* allocation that was created: the closures naming a resource are as many
\* as its successful allocation calls.
C15_OneDeletorPerCreatedAllocation ==
    \A r \in AllocatorResources :
        Cardinality({k \in 1..Len(Registered) : r \in Range(Registered[k])})
          = Cardinality({k \in 1..Len(apiLog) :
                            /\ IsCreate(apiLog[k])
                            /\ apiLog[k].obj = r
                            /\ apiLog[k].result = VK_SUCCESS})

\* C16: cleanup() with _isInitialized false waits for nothing, runs no
\* closure, destroys nothing and changes no engine state.
C16_CleanupBeforeInitIsNoOp ==
    [][ (apiCalls'.cleanup # apiCalls.cleanup /\ ~ _isInitialized)
            => /\ apiLog' = apiLog
               /\ invoked' = invoked
               /\ deletors' = deletors
               /\ apiCalls'.flush = apiCalls.flush
               /\ UNCHANGED <<frameVars, gpuVars, ctl, initPc, _isInitialized, handles,
                              faults, bQuit, events, iters, _selectedShader>> ]_vars

\* cleanup() has been called on an engine that was never initialized
C16_Witness ==
    /\ apiCalls.cleanup >= 1
    /\ ~ _isInitialized
    /\ ctl = "main"

\* C17: a second init() leaves the engine as the first one did: no resource
\* is created a second time, the queue holds the closures of one init(),
\* and _isInitialized is set.
C17_InitIdempotent ==
    (ctl = "main" /\ apiCalls.init = 2 /\ apiCalls.cleanup = 0 /\ faults = 0)
        => /\ _isInitialized
           /\ \A k \in 1..Len(apiLog) :
                 IsCreate(apiLog[k]) => Count(apiLog, "create", apiLog[k].obj) = 1
           /\ \A j, k \in 1..Len(deletors) : deletors[j] = deletors[k] => j = k

RunStates == {"run:test", "run:poll", "run:draw"}

LastCreate(obj) ==
    apiLog[CHOOSE k \in 1..Len(apiLog) :
              /\ IsCreate(apiLog[k]) /\ apiLog[k].obj = obj
              /\ \A j \in (k + 1)..Len(apiLog) :
                    ~ (IsCreate(apiLog[j]) /\ apiLog[j].obj = obj)].result

PipelineNames == {"_trianglePipeline", "_altTrianglePipeline", "_meshPipeline"}

\* C19: build_pipeline returns VK_NULL_HANDLE exactly when
\* vkCreateGraphicsPipelines did not return VK_SUCCESS, and the new non-null
\* handle otherwise; init() goes on either way.
C19_NullHandleIffCreateFailed ==
    \A p \in PipelineNames :
        Count(apiLog, "create", p) > 0
            => /\ (handles[p] = VK_NULL_HANDLE) <=> (LastCreate(p) # VK_SUCCESS)
               /\ (handles[p] = "handle") <=> (LastCreate(p) = VK_SUCCESS)

\* init() has completed with one pipeline build failed and another succeeded
C19_Witness ==
    /\ _isInitialized
    /\ ctl = "main"
    /\ handles["_meshPipeline"] = VK_NULL_HANDLE
    /\ LastCreate("_meshPipeline") = VK_PIPELINE_COMPILE_REQUIRED
    /\ handles["_trianglePipeline"] = "handle"

\* C20: draw() never binds a null pipeline handle, and no pipeline is built
\* from a shader module whose load failed.
C20_PipelineCheckedBeforeUse ==
    /\ (ctl = "run:draw" /\ "vkCmdRecord" \in Range(calls))
          => handles["_meshPipeline"] # VK_NULL_HANDLE
    /\ \A k \in 1..Len(apiLog) :
          (IsCreate(apiLog[k]) /\ apiLog[k].obj \in PipelineNames)
              => \A j \in 1..(k - 1) :
                    (IsCreate(apiLog[j])
                       /\ apiLog[j].obj \in
                             (CASE apiLog[k].obj = "_trianglePipeline" ->
                                     {"helloTriangleVertexShader", "helloTriangleFragShader"}
                                [] apiLog[k].obj = "_altTrianglePipeline" ->
                                     {"altHelloVertexShader", "altHelloFragShader"}
                                [] apiLog[k].obj = "_meshPipeline" ->
                                     {"meshVertexShader", "altHelloFragShader"}))
                        => apiLog[j].result = VK_SUCCESS

\* ------------------------------------------------------ fatal-error claims
\* the creation calls whose failure C21 calls fatal
FatalCreates ==
    {"_trianglePipelineLayout", "_meshPipelineLayout",
     "_renderFence", "_presentSemaphore", "_renderSemaphore"}

\* C21: a failed creation of a pipeline layout, of the render fence or of a
\* semaphore halts init(): no creation call follows it and _isInitialized
\* is not set.
C21_LayoutFenceSemaphoreFailureIsFatal ==
    apiCalls.init = 1
        => \A k \in 1..Len(apiLog) :
              (IsCreate(apiLog[k]) /\ apiLog[k].obj \in FatalCreates
                  /\ apiLog[k].result # VK_SUCCESS)
                 => /\ ~ _isInitialized
                    /\ \A j \in (k + 1)..Len(apiLog) : ~ IsCreate(apiLog[j])

\* --------------------------------------------------------- pipeline claims
\* the vkCreateGraphicsPipelines calls made so far, in order
Builds == SelectSeq(deviceCalls, LAMBDA c : c.call = "vkCreateGraphicsPipelines")

\* the fixed-function part of a create-info
FixedFunction(info) ==
    << info.pInputAssemblyState, info.pViewportState, info.pRasterizationState,
       info.pMultisampleState, info.pColorBlendState, info.subpass,
       info.pDepthStencilState >>

\* C22 as stated: all builds of init_pipelines() agree on every builder
\* field except the shader stages and the vertex input, the pipeline layout
\* included.
C22_OnlyStagesAndVertexInputChange ==
    \A j, k \in 1..Len(Builds) :
        /\ FixedFunction(Builds[j].info) = FixedFunction(Builds[k].info)
        /\ Builds[j].info.layout = Builds[k].info.layout

\* C22: between the builds of init_pipelines() only the shader stages, the
\* vertex input and the pipeline layout change: the fixed-function fields
\* are the same in all builds, the first two builds use
\* _trianglePipelineLayout and the third _meshPipelineLayout.
C22_FixedFunctionStateShared ==
    /\ \A j, k \in 1..Len(Builds) :
          FixedFunction(Builds[j].info) = FixedFunction(Builds[k].info)
    /\ \A k \in 1..Len(Builds) :
          /\ "unset" \notin
                { Builds[k].info.pInputAssemblyState, Builds[k].info.pRasterizationState,
                  Builds[k].info.pMultisampleState, Builds[k].info.pDepthStencilState,
                  Builds[k].info.pViewportState.pViewports,
                  Builds[k].info.pViewportState.pScissors,
                  Builds[k].info.pColorBlendState.pAttachments }
          /\ Builds[k].info.layout =
                IF k <= 2 THEN "_trianglePipelineLayout" ELSE "_meshPipelineLayout"
          /\ Builds[k].info.pVertexInputState =
                IF k <= 2 THEN "vertex_input_state_create_info()"
                          ELSE "Vertex::get_vertex_description()"

\* init_pipelines() has returned after its three builds
C22_Witness ==
    /\ ctl = "pipelines"
    /\ ipPc = 0
    /\ Len(Builds) = 3
    /\ Builds[3].info.stageCount = 2
    /\ Builds[3].info.layout # Builds[1].info.layout

\* C23: build_pipeline with an empty _shaderStages is rejected before the
\* device is called or returns VK_NULL_HANDLE: no create request with
\* stageCount 0 comes back from the device as a pipeline.
C23_ZeroStagesNeverBuilt ==
    \A k \in 1..Len(Builds) :
        Builds[k].info.stageCount = 0 => Builds[k].result # VK_SUCCESS

\* C24: load_shader_module returns false, creates no module and leaves
\* *outShaderModule as it was when the file cannot be opened, when the file
\* is empty (found out before the device is called) or when the device
\* rejects the binary; otherwise it returns true and writes the module.
C24_LoadShaderModuleContract ==
    \A k \in 1..Len(loadLog) :
        LET e == loadLog[k]
            rejected == \E c \in Range(e.device) : c.result # VK_SUCCESS
            created == \E c \in Range(e.device) : c.result = VK_SUCCESS
        IN  /\ (~ e.file.is_open \/ e.file.size = 0) => e.device = << >>
            /\ (~ e.file.is_open \/ e.file.size = 0 \/ rejected)
                  => (~ e.returned /\ ~ created /\ e.after = e.before)
            /\ ~ (~ e.file.is_open \/ e.file.size = 0 \/ rejected)
                  => (e.returned /\ created /\ e.after = "module")

\* the vkCreatePipelineLayout calls made so far, in order
LayoutCalls == SelectSeq(deviceCalls, LAMBDA c : c.call = "vkCreatePipelineLayout")

\* C25 as stated: the push constant range of the mesh pipeline layout has
\* offset 0, is visible to the vertex stage only and has the size of one
\* 4x4 float matrix, 64 bytes.
C25_PushConstantIsOneMatrix ==
    Len(LayoutCalls) >= 2
        => LayoutCalls[2].info.pushConstantRanges
             = << [ offset |-> 0, size |-> 64, stageFlags |-> {"VK_SHADER_STAGE_VERTEX_BIT"} ] >>

\* C25: the mesh pipeline layout declares one push constant range, at
\* offset 0, visible to the vertex stage only, of sizeof(MeshPushConstants)
\* = 80 bytes: a 4-float vector (16) followed by a 4x4 float matrix (64);
\* the triangle pipeline layout declares none.
C25_PushConstantIsVectorAndMatrix ==
    /\ Len(LayoutCalls) >= 1 => LayoutCalls[1].info.pushConstantRanges = << >>
    /\ Len(LayoutCalls) >= 2
          => LayoutCalls[2].info.pushConstantRanges
               = << [ offset |-> 0, size |-> 80, stageFlags |-> {"VK_SHADER_STAGE_VERTEX_BIT"} ] >>
    /\ sizeof_vec4 + sizeof_mat4 = 80

\* the mesh pipeline layout has been created and init_pipelines() has returned
C25_Witness ==
    /\ ctl = "pipelines"
    /\ ipPc = 0
    /\ Len(LayoutCalls) = 2
    /\ LayoutCalls[2].result = VK_SUCCESS

\* ------------------------------------------------------------- mesh claims
\* upload_mesh() has returned
Uploaded == ctl = "mesh" /\ upPc = Len(UploadOrder) + 1

\* the calls upload_mesh() made, by name
UploadCalls == [k \in 1..Len(meshCalls) |-> meshCalls[k].call]

\* C27: for a mesh of K vertices upload_mesh creates a buffer of exactly
\* K * sizeof(Vertex) bytes and, mapping, copying and unmapping in that
\* order, leaves in it a byte-identical copy of the vertex list; the mapped
\* pointer is not used after the unmap.
C27_UploadRoundTrip ==
    Uploaded
        => /\ _vertexBuffer._buffer = "handle"
           /\ _vertexBuffer.size = Len(_vertices) * 36
           /\ _vertexBuffer.memory = VerticesData(_vertices)
           /\ SubSeq(UploadCalls, 1, 4)
                 = << "vmaCreateBuffer", "vmaMapMemory", "memcpy", "vmaUnmapMemory" >>
           /\ \A k \in 1..Len(meshCalls) :
                 meshCalls[k].call \in {"vmaMapMemory", "memcpy", "vmaUnmapMemory"}
                     => meshCalls[k].valid
           /\ data = "unmapped" /\ ~ _vertexBuffer.mapped

\* C28: upload_mesh of an empty vertex list uses no invalid allocation: it
\* yields a zero-size buffer, maps or copies nothing on a buffer whose
\* creation failed, and a later draw of 0 vertices draws nothing.
C28_EmptyMeshUpload ==
    (ctl = "mesh" /\ _vertices = << >>)
        => /\ Uploaded => (_vertexBuffer._buffer = "handle" /\ _vertexBuffer.size = 0)
           /\ \A k \in 1..Len(meshCalls) :
                 /\ meshCalls[k].call \in {"vmaMapMemory", "memcpy", "vmaUnmapMemory",
                                            "vkCmdBindVertexBuffers"}
                       => meshCalls[k].valid
                 /\ meshCalls[k].call = "vkCmdDraw" => meshCalls[k].arg = 0

\* ------------------------------------------------------- frame loop claims
\* C26: each space-key press flips _selectedShader between 0 and 1, and
\* draw() binds _trianglePipeline when it is 0, _altTrianglePipeline when 1.
C26_ToggleSelectsPipeline ==
    /\ [](_selectedShader \in {0, 1})
    /\ [][ (ctl = "run:poll" /\ events # << >> /\ events' = Tail(events)
              /\ Head(events) = "SDL_KEYDOWN")
            => _selectedShader' = 1 - _selectedShader ]_vars
    /\ []( (ctl = "run:draw" /\ "vkCmdRecord" \in Range(calls))
            => boundPipeline = IF _selectedShader = 0 THEN "_trianglePipeline"
                                                      ELSE "_altTrianglePipeline" )

\* what init() leaves behind and the frame loop is not to write: the handles,
\* the ready flag, the queue, the calls that created or destroyed anything
InitProducts == <<handles, _isInitialized, deletors, invoked, apiLog, windowFlags>>

\* C29 as stated: while run() is active only _frameNumber is written, once
\* per frame.
C29_OnlyFrameCounterWritten ==
    [][ (ctl \in RunStates)
          => ( /\ InitProducts' = InitProducts
               /\ _selectedShader' = _selectedShader
               /\ (_frameNumber' # _frameNumber
                     => (_frameNumber' = _frameNumber + 1 /\ pc # 0 /\ pc' = 0)) ) ]_vars

\* C29: while run() is active the engine members written are _frameNumber,
\* once per drawn frame and as the last statement of draw(), and
\* _selectedShader, by the event loop only; handles, ready flag and deletion
\* queue are left as init() made them.
C29_OnlyFrameCounterAndToggleWritten ==
    [][ (ctl \in RunStates)
          => ( /\ InitProducts' = InitProducts
               /\ (_selectedShader' # _selectedShader => (ctl = "run:poll" /\ pc = 0))
               /\ (_frameNumber' # _frameNumber
                     => (_frameNumber' = _frameNumber + 1 /\ pc # 0 /\ pc' = 0)) ) ]_vars

\* run() has drawn a frame after a key press changed _selectedShader
C29_Witness ==
    /\ ctl \in RunStates
    /\ _selectedShader = 1
    /\ _frameNumber = 1
    /\ boundPipeline # "none"

\* --------------------------------------------------- fence liveness claims
\* C30: every fence reset of draw() is followed by a submission that signals
\* _renderFence: between two draw() calls the fence is never unsignaled
\* without a queued submission that will signal it, also after a failed
\* acquire or a failed submit.
C30_FenceResetFollowedBySignal ==
    (pc = 0 /\ _renderFence = "unsignaled")
        => \E k \in 1..Len(queue) : queue[k].fence = "_renderFence"

\* ------------------------------------------------------- semaphore claims
\* the signal operations given to semaphore s and not yet consumed by a wait
SignalsOutstanding(s) ==
    (IF semaphores[s] = "signaled" THEN 1 ELSE 0)
      + (IF s = "_presentSemaphore" /\ acquirePending THEN 1 ELSE 0)
      + Cardinality({k \in 1..Len(queue) : queue[k].signal = s})

\* the wait operations given to semaphore s that have not yet consumed a signal
WaitsOutstanding(s) ==
    Cardinality({k \in 1..Len(queue) : queue[k].wait = s /\ queue[k].stage = "queued"})
      + Cardinality({k \in 1..Len(presentQueue) : presentQueue[k].wait = s})

\* C31: each semaphore is used in strict signal/wait alternation: acquire
\* gives _presentSemaphore a signal only when no earlier signal of it is
\* unconsumed, the wait of a submission has exactly that one signal to
\* consume, a submission gives _renderSemaphore a signal only when every
\* earlier signal of it has its wait queued, and the wait of a present has
\* exactly one signal to consume.
C31_SemaphoresAlternate ==
    [][ /\ (At("vkAcquireNextImageKHR") /\ calls' # calls
              /\ acquireResult' \in {VK_SUCCESS, VK_SUBOPTIMAL_KHR})
              => /\ SignalsOutstanding("_presentSemaphore") = 0
                 /\ WaitsOutstanding("_presentSemaphore") = 0
        /\ (At("vkQueueSubmit") /\ Len(queue') = Len(queue) + 1)
              => /\ SignalsOutstanding("_presentSemaphore") = 1
                 /\ WaitsOutstanding("_presentSemaphore") = 0
                 /\ SignalsOutstanding("_renderSemaphore") <= WaitsOutstanding("_renderSemaphore")
        /\ (At("vkQueuePresentKHR") /\ calls' # calls)
              => SignalsOutstanding("_renderSemaphore")
                   = WaitsOutstanding("_renderSemaphore") + 1 ]_vars

\* ------------------------------------------------------- shutdown claims
\* C32: cleanup() starts destroying only when the GPU is done: when it makes
\* its first destroy call no submission of draw() is unfinished and no
\* present request is still waiting on _renderSemaphore, whatever the fence
\* wait of cleanup() returned.
C32_CleanupAfterGPUDone ==
    [][ (apiCalls'.cleanup # apiCalls.cleanup /\ _isInitialized)
            => (queue = << >> /\ presentQueue = << >>) ]_vars

\* C33: in any sequence of init() and cleanup() calls every handle is
\* destroyed at most once: no handle has more destroy calls than creation
\* calls, so a cleanup() that follows a cleanup() destroys nothing.
C33_DestroyedAtMostOnce ==
    \A k \in 1..Len(apiLog) :
        IsDestroy(apiLog[k])
            => Count(apiLog, "destroy", apiLog[k].obj) <= Count(apiLog, "create", apiLog[k].obj)

\* the handles created from the logical device that cleanup() destroys
DeviceChildren ==
    {"_swapchain", "_depthImageView", "_depthImage", "_renderPass", "_commandPool",
     "_renderFence", "_presentSemaphore", "_renderSemaphore", "_allocator",
     "_trianglePipeline", "_altTrianglePipeline", "_meshPipeline",
     "_trianglePipelineLayout", "_meshPipelineLayout",
     "_triangleMesh._vertexBuffer", "_monkeyMesh._vertexBuffer"}
        \cup {Framebuffer(i) : i \in 0..(NumImages - 1)}
        \cup {ImageView(i) : i \in 0..(NumImages - 1)}

\* the pairs <<object, handle it depends on>> of C34
DependsOn ==
    {<<Framebuffer(i), ImageView(i)>> : i \in 0..(NumImages - 1)}
        \cup {<<Framebuffer(i), "_depthImageView">> : i \in 0..(NumImages - 1)}
        \cup {<<Framebuffer(i), "_renderPass">> : i \in 0..(NumImages - 1)}
        \cup {<<ImageView(i), "_swapchain">> : i \in 0..(NumImages - 1)}
        \cup { <<"_trianglePipeline", "_trianglePipelineLayout">>,
               <<"_altTrianglePipeline", "_trianglePipelineLayout">>,
               <<"_meshPipeline", "_meshPipelineLayout">>,
               <<"_depthImageView", "_depthImage">>,
               <<"_depthImage", "_allocator">>,
               <<"_triangleMesh._vertexBuffer", "_allocator">>,
               <<"_monkeyMesh._vertexBuffer", "_allocator">> }
        \cup {<<o, "_device">> : o \in DeviceChildren}

\* the object has been created and not destroyed again by entry w of the log
AliveAt(o, w) ==
    Cardinality({k \in 1..w : IsCreate(apiLog[k]) /\ apiLog[k].obj = o})
      > Cardinality({k \in 1..w : IsDestroy(apiLog[k]) /\ apiLog[k].obj = o})

\* position of the first destroy call of o in a cleanup segment, 0 if none
FirstDestroy(seg, o) ==
    IF o \in Range(seg)
        THEN CHOOSE k \in 1..Len(seg) : seg[k] = o /\ \A j \in 1..(k - 1) : seg[j] # o
        ELSE 0

\* C34: in every cleanup() no handle is destroyed while an object that
\* depends on it is alive: a framebuffer is destroyed before its color view,
\* the depth view and the render pass, a pipeline before its layout, the
\* image views before the swapchain, the depth view before the depth image,
\* what the allocator backs before the allocator, and every object made
\* from the device before the device.
C34_DependentsDestroyedFirst ==
    \A w \in 1..Len(apiLog) :
        apiLog[w].op = "wait" =>
            LET seg == CleanupSegment(w) IN
            \A p \in DependsOn :
                (p[2] \in Range(seg) /\ AliveAt(p[1], w))
                    => /\ p[1] \in Range(seg)
                       /\ FirstDestroy(seg, p[1]) < FirstDestroy(seg, p[2])

\* cleanup() has destroyed the framebuffers, the render pass and the device
\* of a complete init()
C34_Witness ==
    /\ ctl = "main"
    /\ apiCalls.init = 1
    /\ apiCalls.cleanup = 1
    /\ \E w \in 1..Len(apiLog) :
          /\ apiLog[w].op = "wait"
          /\ {Framebuffer(0), ImageView(0), "_renderPass", "_swapchain", "_device"}
                \subseteq Range(CleanupSegment(w))

\* ---------------------------------------------------- swapchain index claims
\* C35: the framebuffer a frame renders into and the image index it presents
\* are the index returned by the successful acquire of that frame, which is
\* smaller than the number of framebuffers; _framebuffers is never indexed
\* with a value that no successful acquire returned.
C35_AcquiredIndexUsed ==
    /\ "vkCmdRecord" \in Range(calls)
          => /\ acquireResult \in {VK_SUCCESS, VK_SUBOPTIMAL_KHR}
             /\ recorded.framebuffer = swapchainImageIndex
             /\ recorded.framebuffer \in 0..(NumImages - 1)
    /\ \A k \in 1..Len(presentQueue) :
          presentQueue[k].frame = drawCalls
              => /\ acquireResult \in {VK_SUCCESS, VK_SUBOPTIMAL_KHR}
                 /\ presentQueue[k].image = recorded.framebuffer
                 /\ presentQueue[k].image \in 0..(NumImages - 1)

\* ---------------------------------------------------- command buffer claims
\* the calls of the current draw() that act on _mainCommandBuffer, in order
CommandBufferCalls ==
    SelectSeq(calls, LAMBDA c : c \in {"vkResetCommandBuffer", "vkBeginCommandBuffer",
                                       "vkCmdRecord", "vkEndCommandBuffer", "vkQueueSubmit"})

\* number of times command c is recorded in the command buffer
Recorded(c) == Cardinality({k \in 1..Len(recorded.commands) : recorded.commands[k] = c})

\* C36: in every frame the command buffer goes through reset, begin, record,
\* end, submit, each once and in this order; it is begun only in the initial
\* state a reset leaves, submitted only when recording has ended, and handed
\* to vkQueueSubmit once per recording, the next reset coming only after
\* that; what is recorded is one render pass, begun first and ended last,
\* with exactly one draw call inside.
C36_CommandBufferCycle ==
    /\ [](IsPrefix(CommandBufferCalls,
                   << "vkResetCommandBuffer", "vkBeginCommandBuffer", "vkCmdRecord",
                      "vkEndCommandBuffer", "vkQueueSubmit" >>))
    /\ []((pc = 0 /\ calls # << >>) => Len(CommandBufferCalls) = 5)
    /\ []("vkCmdRecord" \in Range(CommandBufferCalls)
            => /\ Recorded("vkCmdBeginRenderPass") = 1
               /\ Recorded("vkCmdEndRenderPass") = 1
               /\ Recorded("vkCmdDraw") = 1
               /\ Head(recorded.commands) = "vkCmdBeginRenderPass"
               /\ recorded.commands[Len(recorded.commands)] = "vkCmdEndRenderPass")
    /\ [][ /\ (Len(CommandBufferCalls') > Len(CommandBufferCalls)
                 /\ calls'[Len(calls')] = "vkBeginCommandBuffer")
              => (cmdState = "initial" /\ recorded.commands = << >>
                    /\ cmdState' = "recording")
           /\ (Len(CommandBufferCalls') > Len(CommandBufferCalls)
                 /\ calls'[Len(calls')] = "vkCmdRecord")
              => cmdState = "recording"
           /\ (Len(CommandBufferCalls') > Len(CommandBufferCalls)
                 /\ calls'[Len(calls')] = "vkQueueSubmit")
              => (cmdState = "executable" /\ recorded.commands # << >>)
           /\ (calls # << >> /\ calls' = << >>)
              => (pc = 0 /\ Len(CommandBufferCalls) = 5) ]_vars

\* the recording of a second frame has been submitted
C36_Witness ==
    /\ drawCalls = 2
    /\ submitResult = VK_SUCCESS
    /\ cmdState = "pending"
    /\ Len(CommandBufferCalls) = 5
    /\ Recorded("vkCmdDraw") = 1

\* ------------------------------------------------------------ init() claims
\* the stages in the order C37 lists them, each with the first handle it creates
StageMarks ==
    << [ stage |-> "init_vulkan",             first |-> "_instance" ],
       [ stage |-> "init_swapchain",          first |-> "_swapchain" ],
       [ stage |-> "init_default_renderpass", first |-> "_renderPass" ],
       [ stage |-> "init_framebuffers",       first |-> "_framebuffers[0]" ],
       [ stage |-> "init_commands",           first |-> "_commandPool" ],
       [ stage |-> "init_sync_structures",    first |-> "_renderFence" ],
       [ stage |-> "init_pipelines",          first |-> "helloTriangleFragShader" ],
       [ stage |-> "load_meshes",             first |-> "_triangleMesh._vertexBuffer" ] >>

\* the stages that have run, in the order they ran
StagesRun ==
    ObjsOf(SelectSeq(apiLog,
                     LAMBDA e : IsCreate(e)
                                  /\ \E n \in 1..Len(StageMarks) : StageMarks[n].first = e.obj))

\* entry of the log at which the init() call that made entry k began
InitStart(k) ==
    CHOOSE j \in 1..k :
        /\ IsCreate(apiLog[j]) /\ apiLog[j].obj = "_window"
        /\ \A i \in (j + 1)..k : ~ (IsCreate(apiLog[i]) /\ apiLog[i].obj = "_window")

C38_DrainThenDrawThenQuit ==
    /\ [][ /\ (ctl = "run:poll" /\ ctl' # "run:poll")
                 => (events = << >> /\ ctl' = "run:draw")
           /\ (ctl = "run:poll" /\ Len(events') < Len(events))
                 => (events' = Tail(events) /\ ctl' = "run:poll")
           /\ (ctl = "run:draw" /\ ctl' # "run:draw")
                 => (ctl' = "run:test" /\ pc = 0 /\ drawCalls = iters)
           /\ (~ bQuit /\ bQuit') => drawCalls = iters - 1
           /\ (bQuit /\ ctl \in RunStates) => (iters' = iters /\ bQuit')
           /\ (ctl \in RunStates /\ ctl' \notin RunStates)
                 => (ctl = "run:test" /\ ctl' = "main" /\ bQuit /\ drawCalls = iters) ]_vars
    /\ ((ctl = "run:poll" /\ bQuit) ~> (ctl = "main" /\ bQuit /\ drawCalls = iters))

\* SDL_QUIT and a key press were polled in one iteration and its draw() is
\* being executed
C38_Witness ==
    /\ ctl = "run:draw"
    /\ bQuit
    /\ pc # 0
    /\ events = << >>
    /\ apiCalls.events = 2
    /\ _selectedShader = 1

\* ------------------------------------------------------ shader module claims
\* the pipelines whose build references shader module m
BuiltFrom(m) ==
    CASE m = "helloTriangleVertexShader" -> {"_trianglePipeline"}
      [] m = "helloTriangleFragShader"   -> {"_trianglePipeline"}
      [] m = "altHelloVertexShader"      -> {"_altTrianglePipeline"}
      [] m = "altHelloFragShader"        -> {"_altTrianglePipeline", "_meshPipeline"}
      [] m = "meshVertexShader"          -> {"_meshPipeline"}

\* position in deviceCalls of the build of the n-th pipeline, 0 if not yet made
BuildAt(n) ==
    IF Len(Builds) < n THEN 0
    ELSE CHOOSE k \in 1..Len(deviceCalls) :
            /\ deviceCalls[k].call = "vkCreateGraphicsPipelines"
            /\ Cardinality({j \in 1..k : deviceCalls[j].call = "vkCreateGraphicsPipelines"}) = n

BuildOf(p) ==
    CASE p = "_trianglePipeline" -> BuildAt(1)
      [] p = "_altTrianglePipeline" -> BuildAt(2)
      [] p = "_meshPipeline" -> BuildAt(3)

\* positions in deviceCalls of the vkDestroyShaderModule calls on module m
ModuleDestroys(m) ==
    {k \in 1..Len(deviceCalls) :
        deviceCalls[k].call = "vkDestroyShaderModule" /\ deviceCalls[k].info.module = m}

\* the shader modules are destroyed once each, after every build that uses them
C39_DestroyedOnceAfterLastBuild ==
    \A m \in {"helloTriangleVertexShader", "helloTriangleFragShader", "altHelloVertexShader",
              "altHelloFragShader", "meshVertexShader"} :
        /\ Cardinality(ModuleDestroys(m)) <= 1
        /\ (ctl = "pipelines" /\ ipPc = 0 /\ deviceCalls # << >>)
              => Cardinality(ModuleDestroys(m)) = 1
        /\ \A k \in ModuleDestroys(m) : \A p \in BuiltFrom(m) :
              BuildOf(p) # 0 /\ BuildOf(p) < k

\* C39: in init_pipelines() every shader module is destroyed exactly once,
\* only after the last build_pipeline call that references it, and only
\* handles that load_shader_module wrote are passed to a pipeline build or
\* to vkDestroyShaderModule.
C39_OnlyLoadedModulesUsed ==
    /\ C39_DestroyedOnceAfterLastBuild
    /\ \A k \in 1..Len(deviceCalls) :
          /\ deviceCalls[k].call = "vkCreateGraphicsPipelines"
                => \A n \in 1..Len(deviceCalls[k].info.pStages) :
                      deviceCalls[k].info.pStages[n].module = "module"
          /\ deviceCalls[k].call = "vkDestroyShaderModule"
                => deviceCalls[k].info.handle = "module"

\* C40: in load_shader_module, for every file size S, the bytes read into
\* the word buffer never exceed its capacity 4 * floor(S / 4), and the
\* codeSize passed to the device equals the number of bytes read.
C40_ReadFitsWordBuffer ==
    \A k \in 1..Len(loadLog) :
        loadLog[k].file.is_open
            => /\ loadLog[k].capacity = sizeof_uint32_t * (loadLog[k].file.size \div sizeof_uint32_t)
               /\ loadLog[k].read <= loadLog[k].capacity
               /\ \A c \in Range(loadLog[k].device) : c.info.codeSize = loadLog[k].read

====
